---- MODULE Spec2Model ----
(***************************************************************************)
(* Turn-based battle engine (battle_system): the turn / action-slot state  *)
(* machine, the skill / step pipeline with chain gating, formation and     *)
(* reaction attacks, and the tick clock behind cooldowns, effects and      *)
(* modifiers.                                                              *)
(*                                                                         *)
(* The state is the BattleState object `bs` that the engine mutates, plus  *)
(* `last`, an observation of the most recent engine call (which call, the  *)
(* skill submitted, the error raised if any, the integer result of every   *)
(* step that was entered).                                                 *)
(***************************************************************************)
EXTENDS Integers, Sequences, FiniteSets, TLC

VARIABLES bs, last, hist

vars == <<bs, last, hist>>

(***************************************************************************)
(* Bounds of the exploration.                                              *)
(***************************************************************************)
\* end_turn is explored while tick < MaxTick
MaxTick == 2

\* the cooldown exploration runs end_turn while tick < MaxCooldownTick
MaxCooldownTick == 4

\* the largest cooldown_turns a skill declares in the cooldown exploration
MaxCooldownTurns == 1

\* MOVE_DISENGAGE is explored while the largest group id is below MaxGroupId
MaxGroupId == 2

\* the duration exploration stops end_turn at this tick
MaxDurationTick == 3

\* the largest effect_duration / modifier_duration submitted, in turns
MaxDurationTurns == 1

\* the formation exploration stops end_turn at this tick
MaxFormationTick == 2

\* AGI and WIS of the definitions handed to compute_turn_order are drawn
\* from 0..MaxStat, levels from 1..MaxStat + 1
MaxStat == 1

\* the number of compute_turn_order calls made on one set of definitions
MaxOrderCalls == 2

\* the indices handed to the weighted draws are drawn from -1..MaxWeight
MaxWeight == 2

\* the longest allies / enemies list handed to create_battle
MaxSide == 2

\* the attack exploration stops end_turn at this tick
MaxAttackTick == 1

\* the area exploration stops end_turn at this tick
MaxAreaTick == 1

(***************************************************************************)
(* Generic helpers.                                                        *)
(***************************************************************************)
Max2(a, b) == IF a >= b THEN a ELSE b

Min2(a, b) == IF a <= b THEN a ELSE b

Range(s) == {s[i] : i \in 1..Len(s)}

\* Python's Optional[...]: None is the empty tuple, a value v is <<v>>.
None == <<>>

Some(v) == <<v>>

\* dict.get(k, default)
DictGet(d, k, default) == IF k \in DOMAIN d THEN d[k] ELSE default

\* d[k] = v  (insert or overwrite)
DictSet(d, k, v) == [x \in (DOMAIN d) \cup {k} |-> IF x = k THEN v ELSE d[x]]

\* del d[k]
DictDel(d, k) == [x \in (DOMAIN d) \ {k} |-> d[x]]

EmptyDict == [x \in {} |-> 0]

\* list.remove(x): drops the first occurrence
RECURSIVE ListRemove(_, _)
ListRemove(s, x) ==
    IF s = <<>> THEN <<>>
    ELSE IF Head(s) = x THEN Tail(s)
    ELSE <<Head(s)>> \o ListRemove(Tail(s), x)

(***************************************************************************)
(* Characters handed to create_battle.  CharacterDef is immutable input;   *)
(* the values follow the fixtures of the repository's tests, with small    *)
(* max_hp so that every damage tier (1, 3, 9) meets the clamp.             *)
(***************************************************************************)
Stats(s, a, c, i, w, h) == [str |-> s, agi |-> a, con |-> c, int |-> i, wis |-> w, cha |-> h]

CharacterDef(cid, level, stats, max_hp, rng) ==
    [cid |-> cid, level |-> level, stats |-> stats, max_hp |-> max_hp,
     basic_attack_range |-> rng]

Characters ==
    [A1 |-> CharacterDef("A1", 10, Stats(10, 20, 10, 10, 10, 10), 2, "MELEE"),
     A2 |-> CharacterDef("A2", 1, Stats(10, 5, 10, 10, 9, 10), 2, "RANGED"),
     E1 |-> CharacterDef("E1", 5, Stats(10, 12, 10, 10, 10, 10), 1, "MELEE"),
     E2 |-> CharacterDef("E2", 5, Stats(10, 12, 10, 10, 10, 10), 12, "MELEE")]

AllCids == DOMAIN Characters

\* str(cid) comparison used as the last sort key
CidRank == [A1 |-> 1, A2 |-> 2, E1 |-> 3, E2 |-> 4]

\* the (allies, enemies) argument lists explored
Rosters ==
    { [allies |-> <<"A1">>, enemies |-> <<>>],
      [allies |-> <<"A1">>, enemies |-> <<"E1">>] }

(***************************************************************************)
(* Timebase.                                                               *)
(***************************************************************************)
\* faulty variant of turns_to_ticks (the +1 margin forgotten); C9 must not
\* survive it
turns_to_ticks_no_margin(turns, participant_count) ==
    IF turns < 0 THEN [err |-> TRUE, ticks |-> 0]
    ELSE IF participant_count <= 0 THEN [err |-> TRUE, ticks |-> 0]
    ELSE [err |-> FALSE, ticks |-> turns * participant_count]

\* err stands for the ValueError raised on turns < 0 or participant_count <= 0
turns_to_ticks(turns, participant_count) ==
    IF turns < 0 THEN [err |-> TRUE, ticks |-> 0]
    ELSE IF participant_count <= 0 THEN [err |-> TRUE, ticks |-> 0]
    ELSE [err |-> FALSE, ticks |-> turns * participant_count + 1]

ticks_to_turns(ticks, participant_count) ==
    LET x == IF ticks < 0 THEN 0 ELSE ticks
    IN  IF participant_count <= 0 THEN [err |-> TRUE, turns |-> 0]
        ELSE [err |-> FALSE, turns |-> x \div participant_count]

turns_to_ticks_for_battle(b, turns) == turns_to_ticks(turns, Len(b.turn_order))

(***************************************************************************)
(* Indices (pure).  Python computes the crit formulas in floats, clamps    *)
(* negatives to 0 and truncates with int(); for the nonnegative operands   *)
(* used here that is the floor of the exact rational, written with \div.   *)
(* (In the two highest agility-like tiers the products by 1.2 and 1.8 are  *)
(* inexact in binary floating point; no character explored is of level 17  *)
(* or more.)                                                               *)
(***************************************************************************)
HIT_BASE == 40

compute_hit_index(level) == HIT_BASE + level

compute_evade_index(stats) ==
    LET a == stats.agi
        w == stats.wis
        hi == IF a >= w THEN a ELSE w
        lo == IF a >= w THEN w ELSE a
    IN  (hi * 2 + lo) \div 3

level_to_rarity(level) ==
    IF level <= 3 THEN "JUNK"
    ELSE IF level <= 8 THEN "COMMON"
    ELSE IF level <= 12 THEN "UNCOMMON"
    ELSE IF level <= 16 THEN "RARE"
    ELSE IF level <= 19 THEN "PRECIOUS"
    ELSE "LEGEND"

_clamp_nonneg(x) == IF x > 0 THEN x ELSE 0

\* BASE_WEAK = 20, BASE_STRONG = BASE_CRIT = 0 are folded into the sums
BASE_WEAK == 20

_calc_strength_like(rarity, p) ==
    CASE rarity = "JUNK"     -> <<BASE_WEAK + (20 - p), p \div 2, 0>>
      [] rarity = "COMMON"   -> <<BASE_WEAK + (17 - p), p, p \div 5>>
      [] rarity = "UNCOMMON" -> <<BASE_WEAK + (14 - p), (3 * p) \div 2, p \div 3>>
      [] rarity = "RARE"     -> <<BASE_WEAK + (11 - p), 2 * p, p \div 2>>
      [] rarity = "PRECIOUS" -> <<BASE_WEAK + (8 - p), 3 * p, p>>
      [] rarity = "LEGEND"   -> <<BASE_WEAK + (5 - p), (7 * p) \div 2, (3 * p) \div 2>>

_calc_agility_like(rarity, p, s) ==
    CASE rarity = "JUNK"     -> <<BASE_WEAK + (30 - p), (2 * p + s) \div 4, 0>>
      [] rarity = "COMMON"   -> <<BASE_WEAK + (27 - p), (3 * p + s) \div 3, (5 * p + 4 * s) \div 20>>
      [] rarity = "UNCOMMON" -> <<BASE_WEAK + (25 - p), (3 * p + s) \div 2, (5 * p + 2 * s) \div 10>>
      [] rarity = "RARE"     -> <<BASE_WEAK + (23 - p), (4 * p + s) \div 2, (5 * p + s) \div 5>>
      [] rarity = "PRECIOUS" -> <<BASE_WEAK + (20 - p), (4 * p + s) \div 2, (6 * p + s) \div 5>>
      [] rarity = "LEGEND"   -> <<BASE_WEAK + (18 - p), (5 * p + s) \div 2, (9 * p + s) \div 5>>

compute_crit_indices(attacker_level, attacker_stats, crit_stat) ==
    LET rarity == level_to_rarity(attacker_level)
        t == CASE crit_stat = "STR" -> _calc_strength_like(rarity, attacker_stats.str)
               [] crit_stat = "INT" -> _calc_strength_like(rarity, attacker_stats.int)
               [] crit_stat = "AGI" -> _calc_agility_like(rarity, attacker_stats.agi, attacker_stats.str)
               [] crit_stat = "WIS" -> _calc_agility_like(rarity, attacker_stats.wis, attacker_stats.int)
    IN  [weak |-> _clamp_nonneg(t[1]), strong |-> _clamp_nonneg(t[2]),
         crit |-> _clamp_nonneg(t[3])]

_apply_mod(v, dv) == Max2(0, v + dv)

\* IndexModifiers: only hit is ever non-zero in the engine (reaction penalty)
IndexModifiers(hit) == [hit |-> hit, evade |-> 0, weak |-> 0, strong |-> 0, critical |-> 0]

compute_attack_indices(attacker, defender, crit_stat, modifiers) ==
    LET atk == Characters[attacker]
        dfn == Characters[defender]
        ci  == compute_crit_indices(atk.level, atk.stats, crit_stat)
    IN  [hit      |-> _apply_mod(compute_hit_index(atk.level), modifiers.hit),
         evade    |-> _apply_mod(compute_evade_index(dfn.stats), modifiers.evade),
         weak     |-> _apply_mod(ci.weak, modifiers.weak),
         strong   |-> _apply_mod(ci.strong, modifiers.strong),
         critical |-> _apply_mod(ci.crit, modifiers.critical)]

STATUS_RESIST_STAT ==
    [BLEEDING |-> "STR", POISONED |-> "NONE", BURNED |-> "NONE", FROSTBITE |-> "NONE",
     STUN |-> "STR", CONFUSION |-> "WIS", FEAR |-> "INT", CORRUPTION |-> "NONE",
     CURSE |-> "INT", WEAKNESS |-> "STR", DECAY |-> "WIS", BIND |-> "STR",
     BLIND |-> "INT", SLOW |-> "AGI", PARALYSIS |-> "STR", INSTANT_DEATH |-> "NONE",
     FROZEN |-> "NONE", OBLIVION |-> "INT"]

\* err stands for the ValueError on an unknown status id
compute_status_resist_index(stats, status_id) ==
    IF status_id \notin DOMAIN STATUS_RESIST_STAT
    THEN [err |-> TRUE, value |-> 0, resistible |-> FALSE]
    ELSE IF status_id = "INSTANT_DEATH"
    THEN [err |-> FALSE, value |-> 0, resistible |-> FALSE]
    ELSE LET aux == STATUS_RESIST_STAT[status_id]
             con == stats.con
         IN  IF aux = "NONE"
             THEN [err |-> FALSE, value |-> (con * 3) \div 2, resistible |-> TRUE]
             ELSE LET aux_val == CASE aux = "STR" -> stats.str
                                   [] aux = "AGI" -> stats.agi
                                   [] aux = "INT" -> stats.int
                                   [] aux = "WIS" -> stats.wis
                  IN  [err |-> FALSE, value |-> (2 * con + aux_val) \div 2,
                       resistible |-> TRUE]

(***************************************************************************)
(* Checks (weighted draws).  The roll is an argument; callers quantify     *)
(* over random.randint(1, total).                                          *)
(***************************************************************************)
hit_check(hit_index, evade_index, roll) ==
    IF hit_index < 0 \/ evade_index < 0 THEN "ERR"
    ELSE IF hit_index + evade_index <= 0 THEN "ERR"
    ELSE IF roll <= hit_index THEN "HIT" ELSE "EVADE"

\* faulty variant of crit_check (bucket bounds exclusive); C25 must not
\* survive it
crit_check_exclusive(weak_index, strong_index, crit_index, roll) ==
    IF weak_index < 0 \/ strong_index < 0 \/ crit_index < 0 THEN "ERR"
    ELSE IF weak_index + strong_index + crit_index <= 0 THEN "ERR"
    ELSE IF roll < weak_index THEN "WEAK"
    ELSE IF roll < weak_index + strong_index THEN "STRONG"
    ELSE "CRITICAL"

crit_check(weak_index, strong_index, crit_index, roll) ==
    IF weak_index < 0 \/ strong_index < 0 \/ crit_index < 0 THEN "ERR"
    ELSE IF weak_index + strong_index + crit_index <= 0 THEN "ERR"
    ELSE IF roll <= weak_index THEN "WEAK"
    ELSE IF roll <= weak_index + strong_index THEN "STRONG"
    ELSE "CRITICAL"

\* "SUCCESS" / "FAIL" is StatusCheckResult.success = True / False
roll_status_success(inflict, resist, roll) ==
    IF inflict < 0 \/ resist < 0 THEN "ERR"
    ELSE IF inflict = 0 /\ resist = 0 THEN "ERR"
    ELSE IF roll <= inflict THEN "SUCCESS" ELSE "FAIL"

(***************************************************************************)
(* Data model.                                                             *)
(***************************************************************************)
\* faulty variant of _clamp_hp (the upper clamp forgotten); C1 must not
\* survive it
_clamp_hp_no_cap(max_hp, v) ==
    IF v < 0 THEN 0 ELSE v

\* faulty variant of _clamp_hp (the lower clamp forgotten); C32 must not
\* survive it
_clamp_hp_no_floor(max_hp, v) ==
    IF v > max_hp THEN max_hp ELSE v

\* CombatantState._clamp_hp, used by the hp setter on every write
_clamp_hp(max_hp, v) ==
    IF v < 0 THEN 0
    ELSE IF v > max_hp THEN max_hp
    ELSE v

\* CombatantState(...) as built by create_battle; __post_init__ floors _hp at 0
CombatantState(cid, team, hp, max_hp, group_id) ==
    [cid |-> cid, team |-> team, max_hp |-> max_hp, hp |-> Max2(0, hp),
     group_id |-> group_id, can_main |-> TRUE, can_sub |-> TRUE,
     cooldowns |-> EmptyDict, effects |-> EmptyDict, modifiers |-> <<>>]

is_down(st) == st.hp <= 0

\* turn_index is 0-based as in the code; TLA+ sequences are 1-based
current_actor_id(b) == b.turn_order[b.turn_index + 1]

\* st.hp = value  on combatant cid
SetHp(b, cid, value) ==
    [b EXCEPT !.combatants[cid].hp = _clamp_hp(b.combatants[cid].max_hp, value)]

(***************************************************************************)
(* Initiative.                                                             *)
(***************************************************************************)
\* key(a) < key(b) for key = (-agi, -wis, -level, str(cid))
\* faulty variant of KeyBefore (WIS compared ascending); C17 must not
\* survive it
KeyBefore_wis_asc(defs, a, b) ==
    LET da == defs[a]
        db == defs[b]
    IN  \/ da.stats.agi > db.stats.agi
        \/ da.stats.agi = db.stats.agi /\ da.stats.wis < db.stats.wis
        \/ da.stats.agi = db.stats.agi /\ da.stats.wis = db.stats.wis
              /\ da.level > db.level
        \/ da.stats.agi = db.stats.agi /\ da.stats.wis = db.stats.wis
              /\ da.level = db.level /\ CidRank[da.cid] < CidRank[db.cid]

KeyBefore(defs, a, b) ==
    LET da == defs[a]
        db == defs[b]
    IN  \/ da.stats.agi > db.stats.agi
        \/ da.stats.agi = db.stats.agi /\ da.stats.wis > db.stats.wis
        \/ da.stats.agi = db.stats.agi /\ da.stats.wis = db.stats.wis
              /\ da.level > db.level
        \/ da.stats.agi = db.stats.agi /\ da.stats.wis = db.stats.wis
              /\ da.level = db.level /\ CidRank[da.cid] < CidRank[db.cid]

\* sorted(defs.keys(), key=key): the i-th element has i - 1 keys before it
compute_turn_order(defs) ==
    [i \in 1..Cardinality(DOMAIN defs) |->
        CHOOSE c \in DOMAIN defs :
            Cardinality({d \in DOMAIN defs : KeyBefore(defs, d, c)}) = i - 1]

(***************************************************************************)
(* Engine: create_battle, end_turn.                                        *)
(***************************************************************************)
ally_group_id == 0

enemy_group_id == 1

\* faulty variant of _reset_turn_slots (the SUB slot forgotten); C4 must not
\* survive it
_reset_turn_slots_main_only(b, actor) ==
    [b EXCEPT !.combatants[actor].can_main = TRUE]

_reset_turn_slots(b, actor) ==
    [b EXCEPT !.combatants[actor].can_main = TRUE,
              !.combatants[actor].can_sub = TRUE]

\* err: duplicate cid (ValueError), or no participant at all (IndexError in
\* current_actor_id)
create_battle(allies, enemies) ==
    LET all == allies \o enemies
        dup == \E i, j \in 1..Len(all) : i < j /\ all[i] = all[j]
    IN  IF dup \/ all = <<>>
        THEN [err |-> TRUE, bs |-> <<>>]
        ELSE LET cids == Range(all)
                 b0 == [defs |-> [c \in cids |-> Characters[c]],
                        cids |-> all,
                        combatants |->
                            [c \in cids |->
                                IF c \in Range(allies)
                                THEN CombatantState(c, "ALLY", Characters[c].max_hp,
                                                    Characters[c].max_hp, ally_group_id)
                                ELSE CombatantState(c, "ENEMY", Characters[c].max_hp,
                                                    Characters[c].max_hp, enemy_group_id)],
                        turn_order |-> compute_turn_order([c \in cids |-> Characters[c]]),
                        turn_index |-> 0,
                        tick |-> 0,
                        groups |-> (ally_group_id :> allies) @@ (enemy_group_id :> enemies)]
             IN  [err |-> FALSE, bs |-> _reset_turn_slots(b0, current_actor_id(b0))]

\* faulty variant of TickCombatant (entries deleted below 0, not at 0); C12
\* must not survive it
TickCombatant_keep_zero(st) ==
    LET cd == [k \in DOMAIN st.cooldowns |-> st.cooldowns[k] - 1]
        ef == [k \in DOMAIN st.effects |-> st.effects[k] - 1]
        md == [i \in 1..Len(st.modifiers) |->
                  [st.modifiers[i] EXCEPT !.ticks_left = @ - 1]]
    IN  [st EXCEPT
            !.cooldowns = [k \in {x \in DOMAIN cd : cd[x] >= 0} |-> cd[k]],
            !.effects = [k \in {x \in DOMAIN ef : ef[x] >= 0} |-> ef[k]],
            !.modifiers = SelectSeq(md, LAMBDA m : m.ticks_left >= 0)]

\* one combatant's share of _tick_decrement_all
TickCombatant(st) ==
    LET cd == [k \in DOMAIN st.cooldowns |-> st.cooldowns[k] - 1]
        ef == [k \in DOMAIN st.effects |-> st.effects[k] - 1]
        md == [i \in 1..Len(st.modifiers) |->
                  [st.modifiers[i] EXCEPT !.ticks_left = @ - 1]]
    IN  [st EXCEPT
            !.cooldowns = [k \in {x \in DOMAIN cd : cd[x] > 0} |-> cd[k]],
            !.effects = [k \in {x \in DOMAIN ef : ef[x] > 0} |-> ef[k]],
            !.modifiers = SelectSeq(md, LAMBDA m : m.ticks_left > 0)]

\* faulty variant of _tick_decrement_all (only the combatant whose turn ends
\* decays); C11 must not survive it
_tick_decrement_all_actor_only(b) ==
    [b EXCEPT !.combatants[current_actor_id(b)] = TickCombatant(@)]

_tick_decrement_all(b) ==
    [b EXCEPT !.combatants = [c \in DOMAIN b.combatants |-> TickCombatant(b.combatants[c])]]

\* faulty variant of end_turn (the order is rotated under a fixed index);
\* C18 must not survive it
end_turn_rotating(b) ==
    LET b1 == [b EXCEPT !.tick = @ + 1]
        b2 == _tick_decrement_all(b1)
        b3 == [b2 EXCEPT !.turn_order = Tail(@) \o <<Head(@)>>]
    IN  _reset_turn_slots(b3, current_actor_id(b3))

\* faulty variant of end_turn (the turn passes over combatants at 0 HP);
\* C40 must not survive it
end_turn_skip_down(b) ==
    LET b1 == [b EXCEPT !.tick = @ + 1]
        b2 == _tick_decrement_all(b1)
        n  == Len(b2.turn_order)
        up == {k \in 1..n : ~is_down(b2.combatants[b2.turn_order[((b2.turn_index + k) % n) + 1]])}
        k0 == IF up = {} THEN 1 ELSE CHOOSE k \in up : \A j \in up : k <= j
        b3 == [b2 EXCEPT !.turn_index = (b2.turn_index + k0) % n]
    IN  _reset_turn_slots(b3, current_actor_id(b3))

end_turn(b) ==
    LET b1 == [b EXCEPT !.tick = @ + 1]
        b2 == _tick_decrement_all(b1)
        b3 == [b2 EXCEPT !.turn_index = (b2.turn_index + 1) % Len(b2.turn_order)]
    IN  _reset_turn_slots(b3, current_actor_id(b3))

(***************************************************************************)
(* Formation.  Every operation returns the state it leaves behind together *)
(* with err = TRUE when it raised; a raise keeps the mutations made before *)
(* it.                                                                     *)
(***************************************************************************)
same_group(b, x, y) == b.combatants[x].group_id = b.combatants[y].group_id

SetMax(S) == CHOOSE m \in S : \A x \in S : x <= m

\* faulty variant of _next_group_id (the number of groups, not the largest
\* id + 1); C27 must not survive it
_next_group_id_count(b) == Cardinality(DOMAIN b.groups)

_next_group_id(b) ==
    IF DOMAIN b.groups = {} THEN 0 ELSE SetMax(DOMAIN b.groups) + 1

_remove_member(b, gid, cid) ==
    IF gid \notin DOMAIN b.groups THEN [bs |-> b, err |-> TRUE]
    ELSE IF cid \notin Range(b.groups[gid]) THEN [bs |-> b, err |-> TRUE]
    ELSE LET members == ListRemove(b.groups[gid], cid)
         IN  IF Len(members) = 0
             THEN [bs |-> [b EXCEPT !.groups = DictDel(b.groups, gid)], err |-> FALSE]
             ELSE [bs |-> [b EXCEPT !.groups[gid] = members], err |-> FALSE]

\* faulty variant of _add_member (the member is put first); C28 must not
\* survive it
_add_member_front(b, gid, cid) ==
    LET g == IF gid \in DOMAIN b.groups THEN b.groups ELSE DictSet(b.groups, gid, <<>>)
    IN  IF cid \in Range(g[gid])
        THEN [bs |-> [b EXCEPT !.groups = g], err |-> TRUE]
        ELSE [bs |-> [b EXCEPT !.groups = DictSet(g, gid, <<cid>> \o g[gid])],
              err |-> FALSE]

_add_member(b, gid, cid) ==
    LET g == IF gid \in DOMAIN b.groups THEN b.groups ELSE DictSet(b.groups, gid, <<>>)
    IN  IF cid \in Range(g[gid])
        THEN [bs |-> [b EXCEPT !.groups = g], err |-> TRUE]
        ELSE [bs |-> [b EXCEPT !.groups = DictSet(g, gid, Append(g[gid], cid))],
              err |-> FALSE]

\* faulty variant of engage (the actor is not removed from the group it
\* leaves); C15 must not survive it
engage_no_remove(b, actor, target) ==
    IF actor = target THEN [bs |-> b, err |-> TRUE]
    ELSE IF actor \notin DOMAIN b.combatants \/ target \notin DOMAIN b.combatants
    THEN [bs |-> b, err |-> TRUE]
    ELSE LET actor_gid == b.combatants[actor].group_id
             target_gid == b.combatants[target].group_id
         IN  IF actor_gid = target_gid THEN [bs |-> b, err |-> FALSE]
             ELSE LET r2 == _add_member(b, target_gid, actor)
                  IN  IF r2.err THEN r2
                      ELSE [bs |-> [r2.bs EXCEPT
                                       !.combatants[actor].group_id = target_gid],
                            err |-> FALSE]

\* faulty variant of engage (an engage inside one's own group raises); C37
\* must not survive it
engage_same_group_raises(b, actor, target) ==
    IF actor = target THEN [bs |-> b, err |-> TRUE]
    ELSE IF actor \notin DOMAIN b.combatants \/ target \notin DOMAIN b.combatants
    THEN [bs |-> b, err |-> TRUE]
    ELSE LET actor_gid == b.combatants[actor].group_id
             target_gid == b.combatants[target].group_id
         IN  IF actor_gid = target_gid THEN [bs |-> b, err |-> TRUE]
             ELSE LET r1 == _remove_member(b, actor_gid, actor)
                  IN  IF r1.err THEN r1
                      ELSE LET r2 == _add_member(r1.bs, target_gid, actor)
                           IN  IF r2.err THEN r2
                               ELSE [bs |-> [r2.bs EXCEPT
                                                !.combatants[actor].group_id = target_gid],
                                     err |-> FALSE]

engage(b, actor, target) ==
    IF actor = target THEN [bs |-> b, err |-> TRUE]
    ELSE IF actor \notin DOMAIN b.combatants \/ target \notin DOMAIN b.combatants
    THEN [bs |-> b, err |-> TRUE]
    ELSE LET actor_gid == b.combatants[actor].group_id
             target_gid == b.combatants[target].group_id
         IN  IF actor_gid = target_gid THEN [bs |-> b, err |-> FALSE]
             ELSE LET r1 == _remove_member(b, actor_gid, actor)
                  IN  IF r1.err THEN r1
                      ELSE LET r2 == _add_member(r1.bs, target_gid, actor)
                           IN  IF r2.err THEN r2
                               ELSE [bs |-> [r2.bs EXCEPT
                                                !.combatants[actor].group_id = target_gid],
                                     err |-> FALSE]

\* new_gid is the returned GroupID
disengage(b, actor) ==
    IF actor \notin DOMAIN b.combatants THEN [bs |-> b, err |-> TRUE, new_gid |-> 0]
    ELSE LET old_gid == b.combatants[actor].group_id
             new_gid == _next_group_id(b)
             r1 == _remove_member(b, old_gid, actor)
         IN  IF r1.err THEN [bs |-> r1.bs, err |-> TRUE, new_gid |-> new_gid]
             ELSE LET r2 == _add_member(r1.bs, new_gid, actor)
                  IN  IF r2.err THEN [bs |-> r2.bs, err |-> TRUE, new_gid |-> new_gid]
                      ELSE [bs |-> [r2.bs EXCEPT
                                       !.combatants[actor].group_id = new_gid],
                            err |-> FALSE, new_gid |-> new_gid]

\* faulty variant of reaction_attack_candidates (members at 0 HP kept); C29
\* must not survive it
reaction_attack_candidates_with_down(b, mover, prev_group_id, reaction_immune) ==
    IF reaction_immune THEN <<>>
    ELSE LET members == DictGet(b.groups, prev_group_id, <<>>)
             ok(cid) == /\ cid # mover
                        /\ b.combatants[cid].team # b.combatants[mover].team
                        /\ b.defs[cid].basic_attack_range = "MELEE"
         IN  SelectSeq(members, ok)

\* the candidate list, in the member order of the group
reaction_attack_candidates(b, mover, prev_group_id, reaction_immune) ==
    IF reaction_immune THEN <<>>
    ELSE LET members == DictGet(b.groups, prev_group_id, <<>>)
             ok(cid) == /\ cid # mover
                        /\ ~is_down(b.combatants[cid])
                        /\ b.combatants[cid].team # b.combatants[mover].team
                        /\ b.defs[cid].basic_attack_range = "MELEE"
         IN  SelectSeq(members, ok)

(***************************************************************************)
(* Basic attack.  The two random draws are quantified over their whole     *)
(* ranges; the set collects the outcomes some pair of rolls produces.      *)
(***************************************************************************)
\* faulty variant of DAMAGE_TABLE (CRITICAL as STRONG); C24 must not
\* survive it
DAMAGE_TABLE_flat == [WEAK |-> 1, STRONG |-> 3, CRITICAL |-> 3]

\* WEAK / STRONG / CRITICAL damage
DAMAGE_TABLE == [WEAK |-> 1, STRONG |-> 3, CRITICAL |-> 9]

\* hit_check over every roll of random.randint(1, hit + evade)
HitOutcomes(idx) ==
    {hit_check(idx.hit, idx.evade, roll) : roll \in 1..Max2(1, idx.hit + idx.evade)}

\* crit_check over every roll of random.randint(1, weak + strong + crit)
CritOutcomes(idx) ==
    {crit_check(idx.weak, idx.strong, idx.critical, roll) :
        roll \in 1..Max2(1, idx.weak + idx.strong + idx.critical)}

\* apply_skill's default for reaction_hit_penalty
DefaultReactionHitPenalty == 5

\* the results of the attack once it has hit: the crit draw and the damage
AttackHit(b, defender, idx) ==
    {IF c = "ERR" THEN [bs |-> b, err |-> TRUE, outcome |-> c, damage |-> 0]
     ELSE [bs |-> SetHp(b, defender, b.combatants[defender].hp - DAMAGE_TABLE[c]),
           err |-> FALSE, outcome |-> c, damage |-> DAMAGE_TABLE[c]] :
        c \in CritOutcomes(idx)}

\* the set of possible results: the state left behind, outcome, damage;
\* err = TRUE when a check raised
basic_attack(b, attacker, defender, modifiers, crit_stat) ==
    LET idx == compute_attack_indices(attacker, defender, crit_stat, modifiers)
    IN  UNION {IF h = "ERR" THEN {[bs |-> b, err |-> TRUE, outcome |-> h, damage |-> 0]}
               ELSE IF h = "EVADE"
               THEN {[bs |-> b, err |-> FALSE, outcome |-> h, damage |-> 0]}
               ELSE AttackHit(b, defender, idx) :
                   h \in HitOutcomes(idx)}

\* the sum of the deltas of the stored modifier instances of cid under key
RECURSIVE StoredDelta(_, _)
StoredDelta(ms, key) ==
    IF ms = <<>> THEN 0
    ELSE (IF Head(ms).key = key THEN Head(ms).delta ELSE 0)
         + StoredDelta(Tail(ms), key)

\* faulty variant of basic_attack_rolled (the attacker's stored HIT modifier
\* instances are added to modifiers.hit); C38 must not survive it
basic_attack_rolled_stored(b, attacker, defender, modifiers, crit_stat, hit_roll, crit_roll) ==
    LET idx == compute_attack_indices(
                   attacker, defender, crit_stat,
                   [modifiers EXCEPT
                       !.hit = @ + StoredDelta(b.combatants[attacker].modifiers, "HIT")])
        h == hit_check(idx.hit, idx.evade, hit_roll)
        c == crit_check(idx.weak, idx.strong, idx.critical, crit_roll)
    IN  IF h = "ERR" THEN [bs |-> b, err |-> TRUE, outcome |-> h, damage |-> 0]
        ELSE IF h = "EVADE" THEN [bs |-> b, err |-> FALSE, outcome |-> h, damage |-> 0]
        ELSE IF c = "ERR" THEN [bs |-> b, err |-> TRUE, outcome |-> c, damage |-> 0]
        ELSE [bs |-> SetHp(b, defender, b.combatants[defender].hp - DAMAGE_TABLE[c]),
              err |-> FALSE, outcome |-> c, damage |-> DAMAGE_TABLE[c]]

\* basic_attack with its two draws given: hit_roll is what random.randint
\* returns inside hit_check, crit_roll inside crit_check (drawn on a hit only)
basic_attack_rolled(b, attacker, defender, modifiers, crit_stat, hit_roll, crit_roll) ==
    LET idx == compute_attack_indices(attacker, defender, crit_stat, modifiers)
        h == hit_check(idx.hit, idx.evade, hit_roll)
        c == crit_check(idx.weak, idx.strong, idx.critical, crit_roll)
    IN  IF h = "ERR" THEN [bs |-> b, err |-> TRUE, outcome |-> h, damage |-> 0]
        ELSE IF h = "EVADE" THEN [bs |-> b, err |-> FALSE, outcome |-> h, damage |-> 0]
        ELSE IF c = "ERR" THEN [bs |-> b, err |-> TRUE, outcome |-> c, damage |-> 0]
        ELSE [bs |-> SetHp(b, defender, b.combatants[defender].hp - DAMAGE_TABLE[c]),
              err |-> FALSE, outcome |-> c, damage |-> DAMAGE_TABLE[c]]

\* the entry of `results` for one reaction attack (REACTION_ATTACK in events)
ReactionAttack(attacker, r) ==
    [attacker |-> attacker, outcome |-> r.outcome, damage |-> r.damage]

\* faulty variant of execute_reaction_attacks (the loop stops once the mover
\* is down); C33 must not survive it
RECURSIVE execute_reaction_attacks_until_down(_, _, _, _)
execute_reaction_attacks_until_down(b, mover, candidates, reaction_hit_penalty) ==
    IF candidates = <<>> \/ is_down(b.combatants[mover])
    THEN {[bs |-> b, err |-> FALSE, events |-> <<>>]}
    ELSE UNION {IF r.err THEN {[bs |-> r.bs, err |-> TRUE, events |-> <<>>]}
                ELSE {[x EXCEPT !.events = <<ReactionAttack(Head(candidates), r)>> \o @] :
                         x \in execute_reaction_attacks_until_down(
                                   r.bs, mover, Tail(candidates), reaction_hit_penalty)} :
                    r \in basic_attack(b, Head(candidates), mover,
                                       IndexModifiers(-reaction_hit_penalty), "STR")}

\* set of possible [bs, err, events] after every candidate attacked the mover
\* in order; events lists the attacks made
RECURSIVE execute_reaction_attacks(_, _, _, _)
execute_reaction_attacks(b, mover, candidates, reaction_hit_penalty) ==
    IF candidates = <<>> THEN {[bs |-> b, err |-> FALSE, events |-> <<>>]}
    ELSE UNION {IF r.err THEN {[bs |-> r.bs, err |-> TRUE, events |-> <<>>]}
                ELSE {[x EXCEPT !.events = <<ReactionAttack(Head(candidates), r)>> \o @] :
                         x \in execute_reaction_attacks(r.bs, mover, Tail(candidates),
                                                        reaction_hit_penalty)} :
                    r \in basic_attack(b, Head(candidates), mover,
                                       IndexModifiers(-reaction_hit_penalty), "STR")}

(***************************************************************************)
(* Commands.  A Step is the record of its fields; the optional integer     *)
(* fields are None or Some(v), target / effect_id / modifier_key are the   *)
(* string "NONE" when absent.  range and area are the two targeting fields *)
(* the engine reads from every step.                                       *)
(***************************************************************************)
NoTarget == "NONE"

Step(kind, target, range, area) ==
    [kind |-> kind, target |-> target, range |-> range, area |-> area,
     reaction_immune |-> FALSE,
     effect_id |-> "NONE", effect_duration |-> None, status_inflict |-> None,
     modifier_key |-> "NONE", modifier_delta |-> None, modifier_duration |-> None,
     hp_delta |-> None, require_prev_gte |-> 0]

Skill(skill_id, actor, action_type, cooldown_turns, steps) ==
    [skill_id |-> skill_id, actor |-> actor, action_type |-> action_type,
     cooldown_turns |-> cooldown_turns, steps |-> steps, crit_stat |-> "STR"]

(***************************************************************************)
(* Engine: one step.  _apply_step yields the set of possible               *)
(* [bs, err, result]: the state left behind, whether the step raised, and  *)
(* the integer result handed to the chain gate.                            *)
(***************************************************************************)
DISPEL_INFLICT == 20

outcome_rank == [EVADE |-> 0, WEAK |-> 1, STRONG |-> 2, CRITICAL |-> 3]

StepRes(b, err, result) == [bs |-> b, err |-> err, result |-> result]

_resolve_anchor(s) ==
    IF s.area = "ALL" THEN [err |-> FALSE, anchor |-> s.target]
    ELSE IF s.target = NoTarget THEN [err |-> TRUE, anchor |-> NoTarget]
    ELSE [err |-> FALSE, anchor |-> s.target]

\* faulty variant of _check_range (MELEE and RANGED exchanged); C20 must
\* not survive it
_check_range_swapped(b, actor, anchor, s) ==
    IF s.range = "ANY" THEN TRUE
    ELSE IF anchor = NoTarget THEN FALSE
    ELSE LET a_gid == b.combatants[actor].group_id
             t_gid == b.combatants[anchor].group_id
         IN  IF s.range = "MELEE" THEN a_gid # t_gid
             ELSE IF s.range = "RANGED" THEN a_gid = t_gid
             ELSE TRUE

_check_range(b, actor, anchor, s) ==
    IF s.range = "ANY" THEN TRUE
    ELSE IF anchor = NoTarget THEN FALSE
    ELSE LET a_gid == b.combatants[actor].group_id
             t_gid == b.combatants[anchor].group_id
         IN  IF s.range = "MELEE" THEN a_gid = t_gid
             ELSE IF s.range = "RANGED" THEN a_gid # t_gid
             ELSE TRUE

\* faulty variant of _resolve_targets (area ALL leaves out combatants at 0
\* HP); C22 must not survive it
_resolve_targets_alive(b, anchor, s) ==
    IF s.area = "ALL"
    THEN [err |-> FALSE,
          targets |-> SelectSeq(b.cids, LAMBDA c : ~is_down(b.combatants[c]))]
    ELSE IF anchor = NoTarget THEN [err |-> TRUE, targets |-> <<>>]
    ELSE IF s.area = "SINGLE" THEN [err |-> FALSE, targets |-> <<anchor>>]
    ELSE IF s.area = "GROUP"
    THEN LET gid == b.combatants[anchor].group_id
             team == b.combatants[anchor].team
             same_team(cid) == b.combatants[cid].team = team
         IN  [err |-> FALSE, targets |-> SelectSeq(DictGet(b.groups, gid, <<>>), same_team)]
    ELSE [err |-> TRUE, targets |-> <<>>]

_resolve_targets(b, anchor, s) ==
    IF s.area = "ALL" THEN [err |-> FALSE, targets |-> b.cids]
    ELSE IF anchor = NoTarget THEN [err |-> TRUE, targets |-> <<>>]
    ELSE IF s.area = "SINGLE" THEN [err |-> FALSE, targets |-> <<anchor>>]
    ELSE IF s.area = "GROUP"
    THEN LET gid == b.combatants[anchor].group_id
             team == b.combatants[anchor].team
             same_team(cid) == b.combatants[cid].team = team
         IN  [err |-> FALSE, targets |-> SelectSeq(DictGet(b.groups, gid, <<>>), same_team)]
    ELSE [err |-> TRUE, targets |-> <<>>]

_run_reactions(b, mover, cands, reaction_hit_penalty) ==
    IF cands = <<>> THEN {[bs |-> b, err |-> FALSE, events |-> <<>>]}
    ELSE execute_reaction_attacks(b, mover, cands, reaction_hit_penalty)

\* faulty variant of AttackTargets (the rank of the last target, not the
\* best one); C23 must not survive it
RECURSIVE AttackTargets_last(_, _, _, _, _)
AttackTargets_last(b, actor, targets, crit_stat, best) ==
    IF targets = <<>> THEN {StepRes(b, FALSE, best)}
    ELSE UNION {IF r.err THEN {StepRes(r.bs, TRUE, 0)}
                ELSE AttackTargets_last(r.bs, actor, Tail(targets), crit_stat,
                                        outcome_rank[r.outcome]) :
                    r \in basic_attack(b, actor, Head(targets), IndexModifiers(0), crit_stat)}

\* the target loop of ATTACK
RECURSIVE AttackTargets(_, _, _, _, _)
AttackTargets(b, actor, targets, crit_stat, best) ==
    IF targets = <<>> THEN {StepRes(b, FALSE, best)}
    ELSE UNION {IF r.err THEN {StepRes(r.bs, TRUE, 0)}
                ELSE AttackTargets(r.bs, actor, Tail(targets), crit_stat,
                                   Max2(best, outcome_rank[r.outcome])) :
                    r \in basic_attack(b, actor, Head(targets), IndexModifiers(0), crit_stat)}

\* the outcomes roll_status_success can give over its whole roll range
StatusOutcomeSet(inflict, resist) ==
    {roll_status_success(inflict, resist, r) : r \in 1..Max2(1, inflict + resist)}

\* faulty variant of AddEffect (the remaining ticks reset, not added to); C13
\* must not survive it
AddEffect_reset(b, tgt, eff, dur_ticks) ==
    [b EXCEPT !.combatants[tgt].effects = DictSet(@, eff, dur_ticks)]

AddEffect(b, tgt, eff, dur_ticks) ==
    [b EXCEPT !.combatants[tgt].effects =
        DictSet(@, eff, DictGet(@, eff, 0) + dur_ticks)]

\* the target loop of APPLY_EFFECT
RECURSIVE ApplyEffectTargets(_, _, _, _, _, _)
ApplyEffectTargets(b, targets, eff, dur_ticks, inflict, success_any) ==
    IF targets = <<>> THEN {StepRes(b, FALSE, IF success_any = 1 THEN 1 ELSE 0)}
    ELSE LET tgt == Head(targets)
             resist == compute_status_resist_index(b.defs[tgt].stats, eff)
         IN  IF resist.err THEN {StepRes(b, TRUE, 0)}
             ELSE IF ~resist.resistible
             THEN ApplyEffectTargets(AddEffect(b, tgt, eff, dur_ticks), Tail(targets),
                                     eff, dur_ticks, inflict, 1)
             ELSE UNION {IF sr = "ERR" THEN {StepRes(b, TRUE, 0)}
                         ELSE IF sr = "SUCCESS"
                         THEN ApplyEffectTargets(AddEffect(b, tgt, eff, dur_ticks),
                                                 Tail(targets), eff, dur_ticks, inflict, 1)
                         ELSE ApplyEffectTargets(b, Tail(targets), eff, dur_ticks,
                                                 inflict, success_any) :
                             sr \in StatusOutcomeSet(inflict, resist.value)}

\* the DISPEL_CHECK entry that REMOVE_EFFECT appends to `events` for one
\* holder of the effect; roll is None where the log prints roll=NA
DispelCheck(tgt, eff, inflict, roll, success) ==
    [tgt |-> tgt, effect |-> eff, inflict |-> inflict, roll |-> roll, success |-> success]

\* the events a step result carries (REMOVE_EFFECT results list their
\* DISPEL_CHECK entries, movement results their reaction attacks)
EventsOf(r) == IF "events" \in DOMAIN r THEN r.events ELSE <<>>

\* faulty variant of RemoveEffectTargets (the check rolled with the step's
\* status_inflict where it carries one); C26 must not survive it
RECURSIVE RemoveEffectTargets_step_inflict(_, _, _, _, _, _)
RemoveEffectTargets_step_inflict(b, targets, eff, inflict, success_any, events) ==
    IF targets = <<>>
    THEN {[bs |-> b, err |-> FALSE, result |-> IF success_any = 1 THEN 1 ELSE 0,
           events |-> events]}
    ELSE LET tgt == Head(targets)
             resist == compute_status_resist_index(b.defs[tgt].stats, eff)
             used == IF inflict = None THEN DISPEL_INFLICT ELSE inflict[1]
         IN  IF eff \notin DOMAIN b.combatants[tgt].effects
             THEN RemoveEffectTargets_step_inflict(b, Tail(targets), eff, inflict,
                                                   success_any, events)
             ELSE IF resist.err
             THEN {[bs |-> b, err |-> TRUE, result |-> 0, events |-> events]}
             ELSE IF ~resist.resistible
             THEN RemoveEffectTargets_step_inflict(
                      b, Tail(targets), eff, inflict, success_any,
                      Append(events, DispelCheck(tgt, eff, used, None, TRUE)))
             ELSE UNION {LET sr == roll_status_success(used, resist.value, roll)
                             ev == Append(events,
                                          DispelCheck(tgt, eff, used, Some(roll),
                                                      sr = "SUCCESS"))
                         IN  IF sr = "ERR"
                             THEN {[bs |-> b, err |-> TRUE, result |-> 0,
                                    events |-> events]}
                             ELSE IF sr = "SUCCESS"
                             THEN RemoveEffectTargets_step_inflict(
                                      b, Tail(targets), eff, inflict, success_any, ev)
                             ELSE RemoveEffectTargets_step_inflict(
                                      [b EXCEPT !.combatants[tgt].effects = DictDel(@, eff)],
                                      Tail(targets), eff, inflict, 1, ev) :
                             roll \in 1..Max2(1, used + resist.value)}

\* the target loop of REMOVE_EFFECT; inflict is s.status_inflict, which the
\* loop never reads, and events collects the DISPEL_CHECK entries
RECURSIVE RemoveEffectTargets(_, _, _, _, _, _)
RemoveEffectTargets(b, targets, eff, inflict, success_any, events) ==
    IF targets = <<>>
    THEN {[bs |-> b, err |-> FALSE, result |-> IF success_any = 1 THEN 1 ELSE 0,
           events |-> events]}
    ELSE LET tgt == Head(targets)
             resist == compute_status_resist_index(b.defs[tgt].stats, eff)
         IN  IF eff \notin DOMAIN b.combatants[tgt].effects
             THEN RemoveEffectTargets(b, Tail(targets), eff, inflict, success_any, events)
             ELSE IF resist.err
             THEN {[bs |-> b, err |-> TRUE, result |-> 0, events |-> events]}
             ELSE IF ~resist.resistible
             THEN RemoveEffectTargets(
                      b, Tail(targets), eff, inflict, success_any,
                      Append(events, DispelCheck(tgt, eff, DISPEL_INFLICT, None, TRUE)))
             ELSE UNION {LET sr == roll_status_success(DISPEL_INFLICT, resist.value, roll)
                             ev == Append(events,
                                          DispelCheck(tgt, eff, DISPEL_INFLICT, Some(roll),
                                                      sr = "SUCCESS"))
                         IN  IF sr = "ERR"
                             THEN {[bs |-> b, err |-> TRUE, result |-> 0,
                                    events |-> events]}
                             ELSE IF sr = "SUCCESS"
                             THEN RemoveEffectTargets(b, Tail(targets), eff, inflict,
                                                      success_any, ev)
                             ELSE RemoveEffectTargets(
                                      [b EXCEPT !.combatants[tgt].effects = DictDel(@, eff)],
                                      Tail(targets), eff, inflict, 1, ev) :
                             roll \in 1..Max2(1, DISPEL_INFLICT + resist.value)}

\* uuid.uuid4().hex: an id no live instance carries (the least such number)
FreshMid(b) ==
    LET used == UNION {{b.combatants[c].modifiers[i].mid :
                           i \in 1..Len(b.combatants[c].modifiers)} :
                       c \in DOMAIN b.combatants}
    IN  CHOOSE m \in 1..(Cardinality(used) + 1) :
            m \notin used /\ \A k \in 1..(m - 1) : k \in used

\* faulty variant of ApplyModifierTargets (an instance of the same key and
\* delta is extended instead of a new one appended); C14 must not survive it
RECURSIVE ApplyModifierTargets_extend(_, _, _, _, _, _)
ApplyModifierTargets_extend(b, targets, key, delta, dur_ticks, applied_any) ==
    IF targets = <<>> THEN StepRes(b, FALSE, IF applied_any = 1 THEN 1 ELSE 0)
    ELSE LET ms == b.combatants[Head(targets)].modifiers
             same == {i \in 1..Len(ms) : ms[i].key = key /\ ms[i].delta = delta}
             mi == [mid |-> FreshMid(b), key |-> key, delta |-> delta,
                    ticks_left |-> dur_ticks]
         IN  ApplyModifierTargets_extend(
                 [b EXCEPT !.combatants[Head(targets)].modifiers =
                     IF same = {} THEN Append(@, mi)
                     ELSE [i \in 1..Len(ms) |->
                              IF i \in same
                              THEN [ms[i] EXCEPT !.ticks_left = @ + dur_ticks]
                              ELSE ms[i]]],
                 Tail(targets), key, delta, dur_ticks, 1)

\* the target loop of APPLY_MODIFIER
RECURSIVE ApplyModifierTargets(_, _, _, _, _, _)
ApplyModifierTargets(b, targets, key, delta, dur_ticks, applied_any) ==
    IF targets = <<>> THEN StepRes(b, FALSE, IF applied_any = 1 THEN 1 ELSE 0)
    ELSE LET mi == [mid |-> FreshMid(b), key |-> key, delta |-> delta,
                    ticks_left |-> dur_ticks]
         IN  ApplyModifierTargets(
                 [b EXCEPT !.combatants[Head(targets)].modifiers = Append(@, mi)],
                 Tail(targets), key, delta, dur_ticks, 1)

\* the target loop of APPLY_HP_DELTA
RECURSIVE ApplyHpDeltaTargets(_, _, _)
ApplyHpDeltaTargets(b, targets, hp_delta) ==
    IF targets = <<>> THEN b
    ELSE ApplyHpDeltaTargets(
             SetHp(b, Head(targets), b.combatants[Head(targets)].hp + hp_delta),
             Tail(targets), hp_delta)

\* the part of a targeted step shared by ATTACK, APPLY_EFFECT, REMOVE_EFFECT,
\* APPLY_MODIFIER and APPLY_HP_DELTA: range check, then area expansion.
\* "GO" carries the targets; "ZERO" is the `return 0, events` short-circuit.
Targeting(b, actor, anchor, s) ==
    IF ~_check_range(b, actor, anchor, s) THEN [st |-> "ZERO", targets |-> <<>>]
    ELSE LET t == _resolve_targets(b, anchor, s)
         IN  IF t.err THEN [st |-> "RAISE", targets |-> <<>>]
             ELSE IF t.targets = <<>> THEN [st |-> "ZERO", targets |-> <<>>]
             ELSE [st |-> "GO", targets |-> t.targets]

_apply_step(b, actor, s, reaction_hit_penalty, crit_stat) ==
    LET prev_gid == b.combatants[actor].group_id
        a == _resolve_anchor(s)
        anchor == a.anchor
        missing_target == s.target = NoTarget /\ s.area # "ALL"
        tg == Targeting(b, actor, anchor, s)
    IN  IF a.err THEN {StepRes(b, TRUE, 0)}
        ELSE IF s.kind = "MOVE_ENGAGE"
        THEN IF s.target = NoTarget THEN {StepRes(b, TRUE, 0)}
             ELSE LET e == engage(b, actor, s.target)
                  IN  IF e.err THEN {StepRes(e.bs, TRUE, 0)}
                      ELSE {[bs |-> r.bs, err |-> r.err, result |-> 1,
                             events |-> r.events] :
                               r \in _run_reactions(e.bs, actor,
                                        reaction_attack_candidates(e.bs, actor, prev_gid,
                                                                   s.reaction_immune),
                                        reaction_hit_penalty)}
        ELSE IF s.kind = "MOVE_DISENGAGE"
        THEN LET d == disengage(b, actor)
             IN  IF d.err THEN {StepRes(d.bs, TRUE, 0)}
                 ELSE {[bs |-> r.bs, err |-> r.err, result |-> 1, events |-> r.events] :
                          r \in _run_reactions(d.bs, actor,
                                   reaction_attack_candidates(d.bs, actor, prev_gid,
                                                              s.reaction_immune),
                                   reaction_hit_penalty)}
        ELSE IF s.kind = "ATTACK"
        THEN IF missing_target THEN {StepRes(b, TRUE, 0)}
             ELSE IF tg.st = "RAISE" THEN {StepRes(b, TRUE, 0)}
             ELSE IF tg.st = "ZERO" THEN {StepRes(b, FALSE, 0)}
             ELSE AttackTargets(b, actor, tg.targets, crit_stat, 0)
        ELSE IF s.kind = "APPLY_EFFECT"
        THEN IF missing_target THEN {StepRes(b, TRUE, 0)}
             ELSE IF s.effect_id \in {"NONE", ""} \/ s.effect_duration = None
             THEN {StepRes(b, TRUE, 0)}
             ELSE IF s.status_inflict = None THEN {StepRes(b, TRUE, 0)}
             ELSE IF tg.st = "RAISE" THEN {StepRes(b, TRUE, 0)}
             ELSE IF tg.st = "ZERO" THEN {StepRes(b, FALSE, 0)}
             ELSE LET dur == turns_to_ticks_for_battle(b, s.effect_duration[1])
                  IN  IF dur.err THEN {StepRes(b, TRUE, 0)}
                      ELSE ApplyEffectTargets(b, tg.targets, s.effect_id, dur.ticks,
                                              s.status_inflict[1], 0)
        ELSE IF s.kind = "REMOVE_EFFECT"
        THEN IF missing_target THEN {StepRes(b, TRUE, 0)}
             ELSE IF s.effect_id \in {"NONE", ""} THEN {StepRes(b, TRUE, 0)}
             ELSE IF tg.st = "RAISE" THEN {StepRes(b, TRUE, 0)}
             ELSE IF tg.st = "ZERO" THEN {StepRes(b, FALSE, 0)}
             ELSE RemoveEffectTargets(b, tg.targets, s.effect_id, s.status_inflict, 0, <<>>)
        ELSE IF s.kind = "APPLY_MODIFIER"
        THEN IF missing_target THEN {StepRes(b, TRUE, 0)}
             ELSE IF s.modifier_key = "NONE" \/ s.modifier_delta = None
                        \/ s.modifier_duration = None
             THEN {StepRes(b, TRUE, 0)}
             ELSE IF tg.st = "RAISE" THEN {StepRes(b, TRUE, 0)}
             ELSE IF tg.st = "ZERO" THEN {StepRes(b, FALSE, 0)}
             ELSE LET dur == turns_to_ticks_for_battle(b, s.modifier_duration[1])
                  IN  IF dur.err THEN {StepRes(b, TRUE, 0)}
                      ELSE {ApplyModifierTargets(b, tg.targets, s.modifier_key,
                                                 s.modifier_delta[1], dur.ticks, 0)}
        ELSE IF s.kind = "APPLY_HP_DELTA"
        THEN IF missing_target THEN {StepRes(b, TRUE, 0)}
             ELSE IF s.hp_delta = None THEN {StepRes(b, TRUE, 0)}
             ELSE IF tg.st = "RAISE" THEN {StepRes(b, TRUE, 0)}
             ELSE IF tg.st = "ZERO" THEN {StepRes(b, FALSE, 0)}
             ELSE {StepRes(ApplyHpDeltaTargets(b, tg.targets, s.hp_delta[1]), FALSE, 1)}
        ELSE {StepRes(b, TRUE, 0)}

(***************************************************************************)
(* Engine: apply_skill.                                                    *)
(***************************************************************************)
\* faulty variant of not_my_turn (the head of the turn order taken for the
\* current actor); C2 must not survive it
not_my_turn_head(b, skill) == skill.actor # b.turn_order[1]

\* step 0 of apply_skill: skill.actor != current actor
not_my_turn(b, skill) == skill.actor # current_actor_id(b)

\* faulty variant of _use_main (the can_main test forgotten); C3 must not
\* survive it
_use_main_unchecked(b, actor) ==
    IF actor # current_actor_id(b) THEN [bs |-> b, err |-> TRUE]
    ELSE [bs |-> [b EXCEPT !.combatants[actor].can_main = FALSE], err |-> FALSE]

_use_main(b, actor) ==
    IF actor # current_actor_id(b) THEN [bs |-> b, err |-> TRUE]
    ELSE IF ~b.combatants[actor].can_main THEN [bs |-> b, err |-> TRUE]
    ELSE [bs |-> [b EXCEPT !.combatants[actor].can_main = FALSE], err |-> FALSE]

_use_sub(b, actor) ==
    IF actor # current_actor_id(b) THEN [bs |-> b, err |-> TRUE]
    ELSE IF ~b.combatants[actor].can_sub THEN [bs |-> b, err |-> TRUE]
    ELSE [bs |-> [b EXCEPT !.combatants[actor].can_sub = FALSE], err |-> FALSE]

\* faulty variant of cooldown_blocked (left > 1 for left > 0); C10 must not
\* survive it
cooldown_blocked_late(b, actor, skill) ==
    IF skill.cooldown_turns > 0
    THEN DictGet(b.combatants[actor].cooldowns, skill.skill_id, 0) > 1
    ELSE FALSE

\* step 2 of apply_skill: the cooldown check
cooldown_blocked(b, actor, skill) ==
    IF skill.cooldown_turns > 0
    THEN DictGet(b.combatants[actor].cooldowns, skill.skill_id, 0) > 0
    ELSE FALSE

\* faulty variant of chain_break (<= for <); C6 must not survive it
chain_break_strict(prev, s) == prev <= s.require_prev_gte

\* the gate in front of a step: prev < s.require_prev_gte breaks the chain
chain_break(prev, s) == prev < s.require_prev_gte

\* step 3 of apply_skill, from a given `prev`; ran lists every step entered,
\* with its result, or raised = TRUE when it raised
RECURSIVE run_steps(_, _, _, _, _, _, _)
run_steps(b, actor, steps, prev, ran, reaction_hit_penalty, crit_stat) ==
    IF steps = <<>> THEN {[bs |-> b, err |-> FALSE, ran |-> ran, events |-> <<>>]}
    ELSE IF chain_break(prev, Head(steps))
    THEN {[bs |-> b, err |-> FALSE, ran |-> ran, events |-> <<>>]}
    ELSE UNION {IF r.err
                THEN {[bs |-> r.bs, err |-> TRUE,
                       ran |-> Append(ran, [raised |-> TRUE, result |-> 0]),
                       events |-> EventsOf(r)]}
                ELSE {[x EXCEPT !.events = EventsOf(r) \o @] :
                         x \in run_steps(r.bs, actor, Tail(steps), r.result,
                                         Append(ran, [raised |-> FALSE, result |-> r.result]),
                                         reaction_hit_penalty, crit_stat)} :
                    r \in _apply_step(b, actor, Head(steps), reaction_hit_penalty, crit_stat)}

\* `prev: int = 1` before the loop
InitialPrev == 1

\* step 4 of apply_skill: cooldown registration
register_cooldown(b, actor, skill) ==
    IF skill.cooldown_turns > 0
    THEN [b EXCEPT !.combatants[actor].cooldowns =
             DictSet(@, skill.skill_id,
                     turns_to_ticks_for_battle(b, skill.cooldown_turns).ticks)]
    ELSE b

\* faulty variant of apply_skill (a skill that did not run all its steps, or
\* whose last step returned 0, is undone: the state is as after the slot was
\* consumed); C31 must not survive it
apply_skill_transactional(b, skill, reaction_hit_penalty) ==
    LET actor == current_actor_id(b)
        u == IF skill.action_type = "MAIN" THEN _use_main(b, actor) ELSE _use_sub(b, actor)
    IN  IF not_my_turn(b, skill)
        THEN {[bs |-> b, err |-> "NOT_YOUR_TURN", ran |-> <<>>, events |-> <<>>]}
        ELSE IF u.err
        THEN {[bs |-> u.bs, err |-> "SLOT_USED", ran |-> <<>>, events |-> <<>>]}
        ELSE IF cooldown_blocked(u.bs, actor, skill)
        THEN {[bs |-> u.bs, err |-> "ON_COOLDOWN", ran |-> <<>>, events |-> <<>>]}
        ELSE {IF r.err
              THEN [bs |-> r.bs, err |-> "STEP_RAISED", ran |-> r.ran, events |-> r.events]
              ELSE IF Len(r.ran) < Len(skill.steps)
                      \/ (r.ran # <<>> /\ r.ran[Len(r.ran)].result = 0)
              THEN [bs |-> register_cooldown(u.bs, actor, skill), err |-> "",
                    ran |-> r.ran, events |-> r.events]
              ELSE [bs |-> register_cooldown(r.bs, actor, skill), err |-> "",
                    ran |-> r.ran, events |-> r.events] :
                 r \in run_steps(u.bs, actor, skill.steps, InitialPrev, <<>>,
                                 reaction_hit_penalty, skill.crit_stat)}

\* faulty variant of apply_skill (the cooldown registered also when a step
\* raised); C36 must not survive it
apply_skill_register_on_raise(b, skill, reaction_hit_penalty) ==
    LET actor == current_actor_id(b)
        u == IF skill.action_type = "MAIN" THEN _use_main(b, actor) ELSE _use_sub(b, actor)
    IN  IF not_my_turn(b, skill)
        THEN {[bs |-> b, err |-> "NOT_YOUR_TURN", ran |-> <<>>, events |-> <<>>]}
        ELSE IF u.err
        THEN {[bs |-> u.bs, err |-> "SLOT_USED", ran |-> <<>>, events |-> <<>>]}
        ELSE IF cooldown_blocked(u.bs, actor, skill)
        THEN {[bs |-> u.bs, err |-> "ON_COOLDOWN", ran |-> <<>>, events |-> <<>>]}
        ELSE {IF r.err
              THEN [bs |-> register_cooldown(r.bs, actor, skill), err |-> "STEP_RAISED",
                    ran |-> r.ran, events |-> r.events]
              ELSE [bs |-> register_cooldown(r.bs, actor, skill), err |-> "",
                    ran |-> r.ran, events |-> r.events] :
                 r \in run_steps(u.bs, actor, skill.steps, InitialPrev, <<>>,
                                 reaction_hit_penalty, skill.crit_stat)}

\* faulty variant of apply_skill (the cooldown checked before the slot is
\* consumed); C35 must not survive it
apply_skill_cooldown_first(b, skill, reaction_hit_penalty) ==
    LET actor == current_actor_id(b)
        u == IF skill.action_type = "MAIN" THEN _use_main(b, actor) ELSE _use_sub(b, actor)
    IN  IF not_my_turn(b, skill)
        THEN {[bs |-> b, err |-> "NOT_YOUR_TURN", ran |-> <<>>, events |-> <<>>]}
        ELSE IF cooldown_blocked(b, actor, skill)
        THEN {[bs |-> b, err |-> "ON_COOLDOWN", ran |-> <<>>, events |-> <<>>]}
        ELSE IF u.err
        THEN {[bs |-> u.bs, err |-> "SLOT_USED", ran |-> <<>>, events |-> <<>>]}
        ELSE {IF r.err
              THEN [bs |-> r.bs, err |-> "STEP_RAISED", ran |-> r.ran, events |-> r.events]
              ELSE [bs |-> register_cooldown(r.bs, actor, skill), err |-> "",
                    ran |-> r.ran, events |-> r.events] :
                 r \in run_steps(u.bs, actor, skill.steps, InitialPrev, <<>>,
                                 reaction_hit_penalty, skill.crit_stat)}

\* the set of possible [bs, err, ran, events]; err is "" when the call
\* returned.  events lists the DISPEL_CHECK and REACTION_ATTACK entries of
\* EngineOutcome.events.
apply_skill(b, skill, reaction_hit_penalty) ==
    LET actor == current_actor_id(b)
        u == IF skill.action_type = "MAIN" THEN _use_main(b, actor) ELSE _use_sub(b, actor)
    IN  IF not_my_turn(b, skill)
        THEN {[bs |-> b, err |-> "NOT_YOUR_TURN", ran |-> <<>>, events |-> <<>>]}
        ELSE IF u.err
        THEN {[bs |-> u.bs, err |-> "SLOT_USED", ran |-> <<>>, events |-> <<>>]}
        ELSE IF cooldown_blocked(u.bs, actor, skill)
        THEN {[bs |-> u.bs, err |-> "ON_COOLDOWN", ran |-> <<>>, events |-> <<>>]}
        ELSE {IF r.err
              THEN [bs |-> r.bs, err |-> "STEP_RAISED", ran |-> r.ran, events |-> r.events]
              ELSE [bs |-> register_cooldown(r.bs, actor, skill), err |-> "",
                    ran |-> r.ran, events |-> r.events] :
                 r \in run_steps(u.bs, actor, skill.steps, InitialPrev, <<>>,
                                 reaction_hit_penalty, skill.crit_stat)}

(***************************************************************************)
(* The skills submitted to apply_skill.  Any combatant may be named as the *)
(* actor (also one whose turn it is not) and as the target.                *)
(***************************************************************************)
HpDeltas == {-100, -1, 1, 100}

AttackStep(t) == Step("ATTACK", t, "ANY", "SINGLE")

\* APPLY_EFFECT of BLEEDING for `turns` turns, gated on the previous result
BleedStep(t, turns, req) ==
    [Step("APPLY_EFFECT", t, "ANY", "SINGLE") EXCEPT
        !.effect_id = "BLEEDING", !.effect_duration = Some(turns),
        !.status_inflict = Some(30), !.require_prev_gte = req]

HpDeltaStep(t, d, req) ==
    [Step("APPLY_HP_DELTA", t, "ANY", "SINGLE") EXCEPT
        !.hp_delta = Some(d), !.require_prev_gte = req]

\* the attack-then-bleed chain of the tests
Strike(actor, t, action_type, c) ==
    Skill("strike", actor, action_type, c, <<AttackStep(t), BleedStep(t, 0, 1)>>)

SkillsOf(actor, t) ==
    {Strike(actor, t, "MAIN", 0)}
    \cup {Skill("mend", actor, "SUB", 0, <<HpDeltaStep(t, d, 0)>>) : d \in HpDeltas}
    \cup {Skill("gated", actor, "SUB", 0, <<HpDeltaStep(t, -1, 2)>>)}
    \cup {Skill("dash", actor, "SUB", 0, <<Step("MOVE_ENGAGE", t, "ANY", "SINGLE")>>)}
    \cup {Skill("retreat", actor, "MAIN", 0,
                <<Step("MOVE_DISENGAGE", actor, "ANY", "SINGLE")>>)}

DisengageCount(skill) ==
    Cardinality({i \in 1..Len(skill.steps) : skill.steps[i].kind = "MOVE_DISENGAGE"})

SkillInputs(b) ==
    {sk \in UNION {SkillsOf(a, t) : a \in DOMAIN b.combatants, t \in DOMAIN b.combatants} :
        DisengageCount(sk) = 0 \/ SetMax(DOMAIN b.groups) < MaxGroupId}

\* the skills of the cooldown exploration: one skill id, submitted by the
\* current actor on either slot against the last combatant of the turn order,
\* declared with every cooldown_turns in 0..MaxCooldownTurns
CooldownInputs(b) ==
    {Strike(current_actor_id(b), b.turn_order[Len(b.turn_order)], ty, c) :
        ty \in {"MAIN", "SUB"}, c \in 0..MaxCooldownTurns}

(***************************************************************************)
(* The state machine.                                                      *)
(***************************************************************************)
\* what `last` keeps of a submitted skill: everything but the payload of its
\* steps (of a step it keeps the kind and the gate)
Observed(skill) ==
    [skill_id |-> skill.skill_id, actor |-> skill.actor,
     action_type |-> skill.action_type, cooldown_turns |-> skill.cooldown_turns,
     steps |-> [i \in 1..Len(skill.steps) |->
                   [kind |-> skill.steps[i].kind,
                    require_prev_gte |-> skill.steps[i].require_prev_gte]]]

\* last observes the most recent call: op, the skill submitted, err ("" when
\* the call returned), ran (the steps entered, with their results).
\* hist counts the skills that returned normally since the last end_turn, per
\* slot, and remembers for each (actor, skill id) the tick and the
\* cooldown_turns of the last cooldown registration
Init ==
    /\ \E r \in Rosters :
          /\ ~create_battle(r.allies, r.enemies).err
          /\ bs = create_battle(r.allies, r.enemies).bs
    /\ last = [op |-> "create_battle", skill |-> None, err |-> "", ran |-> <<>>,
               since |-> -1, reg_turns |-> 0]
    /\ hist = [main_done |-> 0, sub_done |-> 0, cd_at |-> EmptyDict]

\* the number of the submitter's own turns that began since the cooldown of
\* this skill id was last registered for it (-1: never registered), and the
\* cooldown_turns of that registration
CdKey(skill) == <<skill.actor, skill.skill_id>>

OwnTurnsSince(skill) ==
    IF CdKey(skill) \in DOMAIN hist.cd_at
    THEN (bs.tick - hist.cd_at[CdKey(skill)].tick) \div Len(bs.turn_order)
    ELSE -1

RegisteredTurns(skill) ==
    IF CdKey(skill) \in DOMAIN hist.cd_at THEN hist.cd_at[CdKey(skill)].turns ELSE 0

EndTurnUpTo(max_tick) ==
    /\ bs.tick < max_tick
    /\ bs' = end_turn(bs)
    /\ last' = [op |-> "end_turn", skill |-> None, err |-> "", ran |-> <<>>,
                since |-> -1, reg_turns |-> 0]
    /\ hist' = [hist EXCEPT !.main_done = 0, !.sub_done = 0]

ApplySkillFrom(inputs) ==
    \E skill \in inputs :
        \E r \in apply_skill(bs, skill, DefaultReactionHitPenalty) :
            /\ bs' = r.bs
            /\ last' = [op |-> "apply_skill", skill |-> Some(Observed(skill)),
                        err |-> r.err, ran |-> r.ran,
                        since |-> OwnTurnsSince(skill),
                        reg_turns |-> RegisteredTurns(skill)]
            /\ hist' =
                 IF r.err # "" THEN hist
                 ELSE [main_done |-> IF skill.action_type = "MAIN"
                                     THEN Min2(2, hist.main_done + 1) ELSE hist.main_done,
                       sub_done |-> IF skill.action_type # "MAIN"
                                    THEN Min2(2, hist.sub_done + 1) ELSE hist.sub_done,
                       cd_at |-> IF skill.cooldown_turns > 0
                                 THEN DictSet(hist.cd_at, CdKey(skill),
                                              [tick |-> bs.tick,
                                               turns |-> skill.cooldown_turns])
                                 ELSE hist.cd_at]

EndTurn == EndTurnUpTo(MaxTick)

ApplySkill == ApplySkillFrom(SkillInputs(bs))

Next == EndTurn \/ ApplySkill

Spec == Init /\ [][Next]_vars

\* the cooldown exploration: a longer run of turns with the strike skill only
CooldownEndTurn == EndTurnUpTo(MaxCooldownTick)

CooldownSkill == ApplySkillFrom(CooldownInputs(bs))

NextCooldown == CooldownEndTurn \/ CooldownSkill

SpecCooldown == Init /\ [][NextCooldown]_vars

(***************************************************************************)
(* The duration exploration: effects, modifiers and a cooldown are applied *)
(* with durations in turns and left to decay.  Here last.skill keeps the   *)
(* whole skill submitted, and hist also keeps                              *)
(*   base, k : the duration-bearing entries of every combatant as the last *)
(*             apply_skill call left them, and the number of end_turn      *)
(*             calls since;                                                *)
(*   fresh   : for each (target, effect id) the tick and the duration in   *)
(*             turns of the last successful application on a target that   *)
(*             did not hold the effect, as long as it was not re-applied.  *)
(***************************************************************************)
\* APPLY_MODIFIER of HIT -10 for `turns` turns
HexStep(t, turns) ==
    [Step("APPLY_MODIFIER", t, "ANY", "SINGLE") EXCEPT
        !.modifier_key = "HIT", !.modifier_delta = Some(-10),
        !.modifier_duration = Some(turns)]

\* the skills of the duration exploration, submitted by the current actor
\* against the last combatant of the turn order: an effect and a modifier of
\* every duration in 1..MaxDurationTurns, and a skill with a cooldown of one
\* turn
DurationInputs(b) ==
    {Skill("curse", current_actor_id(b), "MAIN", 0,
           <<BleedStep(b.turn_order[Len(b.turn_order)], d, 0)>>) :
        d \in 1..MaxDurationTurns}
    \cup {Skill("hex", current_actor_id(b), "SUB", 0,
                <<HexStep(b.turn_order[Len(b.turn_order)], d)>>) :
             d \in 1..MaxDurationTurns}
    \cup {Skill("focus", current_actor_id(b), "SUB", 1,
                <<HpDeltaStep(current_actor_id(b), 1, 0)>>)}

\* the duration-bearing entries of every combatant
Durations(b) ==
    [c \in DOMAIN b.combatants |->
        [cooldowns |-> b.combatants[c].cooldowns,
         effects |-> b.combatants[c].effects,
         modifiers |-> b.combatants[c].modifiers]]

\* the call entered its only step, which returned `result`
SingleStepDone(l, kind, result) ==
    /\ l.op = "apply_skill"
    /\ l.err = ""
    /\ Len(l.skill[1].steps) = 1
    /\ l.skill[1].steps[1].kind = kind
    /\ l.ran = <<[raised |-> FALSE, result |-> result]>>

FreshAfter(b, skill, r) ==
    LET s == skill.steps[1]
        key == <<s.target, s.effect_id>>
    IN  IF r.err = "" /\ s.kind = "APPLY_EFFECT"
           /\ r.ran = <<[raised |-> FALSE, result |-> 1]>>
        THEN IF s.effect_id \in DOMAIN b.combatants[s.target].effects
             THEN DictDel(hist.fresh, key)
             ELSE DictSet(hist.fresh, key,
                          [tick |-> b.tick, turns |-> s.effect_duration[1]])
        ELSE hist.fresh

InitDuration ==
    /\ \E r \in Rosters :
          /\ ~create_battle(r.allies, r.enemies).err
          /\ bs = create_battle(r.allies, r.enemies).bs
    /\ last = [op |-> "create_battle", skill |-> None, err |-> "", ran |-> <<>>,
               since |-> -1, reg_turns |-> 0]
    /\ hist = [main_done |-> 0, sub_done |-> 0, cd_at |-> EmptyDict,
               base |-> Durations(bs), k |-> 0, fresh |-> EmptyDict]

DurationEndTurn ==
    /\ bs.tick < MaxDurationTick
    /\ bs' = end_turn(bs)
    /\ last' = [op |-> "end_turn", skill |-> None, err |-> "", ran |-> <<>>,
                since |-> -1, reg_turns |-> 0]
    /\ hist' = [hist EXCEPT !.k = @ + 1]

DurationSkill ==
    \E skill \in DurationInputs(bs) :
        \E r \in apply_skill(bs, skill, DefaultReactionHitPenalty) :
            /\ bs' = r.bs
            /\ last' = [op |-> "apply_skill", skill |-> Some(skill),
                        err |-> r.err, ran |-> r.ran, since |-> -1, reg_turns |-> 0]
            /\ hist' = [hist EXCEPT !.base = Durations(r.bs), !.k = 0,
                                    !.fresh = FreshAfter(bs, skill, r)]

NextDuration == DurationEndTurn \/ DurationSkill

SpecDuration == InitDuration /\ [][NextDuration]_vars

(***************************************************************************)
(* Formation exploration: two allies against one enemy; the current actor   *)
(* engages, disengages (with and without a target, area SINGLE and ALL) and *)
(* submits range-limited steps followed by a step gated on their result.    *)
(* last keeps the whole skill submitted; hist is not used.                  *)
(***************************************************************************)
Ranges == {"ANY", "MELEE", "RANGED"}

\* an HP delta of -1 under the given range, then +1 on the actor if the
\* first step yielded at least 1
Poke(actor, t, range) ==
    Skill("poke", actor, "MAIN", 0,
          <<[HpDeltaStep(t, -1, 0) EXCEPT !.range = range], HpDeltaStep(actor, 1, 1)>>)

\* an attack under the given range, then +1 on the actor if it landed
Jab(actor, t, range) ==
    Skill("jab", actor, "SUB", 0,
          <<[AttackStep(t) EXCEPT !.range = range], HpDeltaStep(actor, 1, 1)>>)

Retreat(actor, t, area) ==
    Skill("retreat", actor, "MAIN", 0, <<Step("MOVE_DISENGAGE", t, "ANY", area)>>)

FormationInputs(b) ==
    LET actor == current_actor_id(b)
        others == DOMAIN b.combatants \ {actor}
    IN  {Skill("dash", actor, "SUB", 0, <<Step("MOVE_ENGAGE", t, "ANY", "SINGLE")>>) :
            t \in others}
        \cup {Poke(actor, t, r) : t \in others, r \in Ranges}
        \cup {Jab(actor, t, r) : t \in others, r \in Ranges \ {"ANY"}}
        \cup {sk \in {Retreat(actor, actor, "SINGLE"), Retreat(actor, NoTarget, "SINGLE"),
                      Retreat(actor, NoTarget, "ALL")} :
                 SetMax(DOMAIN b.groups) < MaxGroupId}

InitFormation ==
    /\ bs = create_battle(<<"A1", "A2">>, <<"E1">>).bs
    /\ last = [op |-> "create_battle", skill |-> None, err |-> "", ran |-> <<>>]
    /\ hist = EmptyDict

FormationEndTurn ==
    /\ bs.tick < MaxFormationTick
    /\ bs' = end_turn(bs)
    /\ last' = [op |-> "end_turn", skill |-> None, err |-> "", ran |-> <<>>]
    /\ UNCHANGED hist

FormationSkill ==
    \E skill \in FormationInputs(bs) :
        \E r \in apply_skill(bs, skill, DefaultReactionHitPenalty) :
            /\ bs' = r.bs
            /\ last' = [op |-> "apply_skill", skill |-> Some(skill), err |-> r.err,
                        ran |-> r.ran]
            /\ UNCHANGED hist

NextFormation == FormationEndTurn \/ FormationSkill

SpecFormation == InitFormation /\ [][NextFormation]_vars

(***************************************************************************)
(* Movement exploration: the formation functions called directly, as the    *)
(* tests of the repository do, in a battle of two allies and two enemies:   *)
(* engage, disengage, the hp setter putting a combatant down, and           *)
(* reaction_attack_candidates asked for the combatant that just moved with  *)
(* the group id it had before.  last keeps the call, its arguments, what it *)
(* returned and the member list of the mover's group before the move.       *)
(***************************************************************************)
MoveCall(op, actor, target, err, b) ==
    [op |-> op, actor |-> actor, target |-> target, err |-> err,
     prev_gid |-> b.combatants[actor].group_id,
     prev_members |-> b.groups[b.combatants[actor].group_id],
     new_gid |-> -1, immune |-> FALSE, cands |-> <<>>]

InitMovement ==
    /\ bs = create_battle(<<"A1", "A2">>, <<"E1", "E2">>).bs
    /\ last = [MoveCall("create_battle", "A1", NoTarget, FALSE, bs) EXCEPT
                  !.actor = NoTarget]
    /\ hist = EmptyDict

MoveEngage ==
    \E actor, target \in DOMAIN bs.combatants :
        /\ bs' = engage(bs, actor, target).bs
        /\ last' = MoveCall("engage", actor, target, engage(bs, actor, target).err, bs)
        /\ UNCHANGED hist

MoveDisengage ==
    \E actor \in DOMAIN bs.combatants :
        /\ SetMax(DOMAIN bs.groups) < MaxGroupId
        /\ bs' = disengage(bs, actor).bs
        /\ last' = [MoveCall("disengage", actor, NoTarget, disengage(bs, actor).err, bs)
                       EXCEPT !.new_gid = disengage(bs, actor).new_gid]
        /\ UNCHANGED hist

\* st.hp = 0, explored while nobody is down yet
GoDown ==
    \E c \in DOMAIN bs.combatants :
        /\ \A d \in DOMAIN bs.combatants : ~is_down(bs.combatants[d])
        /\ bs' = SetHp(bs, c, 0)
        /\ last' = [MoveCall("hp", c, NoTarget, FALSE, bs) EXCEPT !.actor = NoTarget]
        /\ UNCHANGED hist

ReactionCandidates ==
    /\ last.op \in {"engage", "disengage"}
    /\ ~last.err
    /\ \E immune \in BOOLEAN :
          last' = [last EXCEPT
                      !.op = "reaction_attack_candidates",
                      !.immune = immune,
                      !.cands = reaction_attack_candidates(bs, last.actor, last.prev_gid,
                                                           immune)]
    /\ UNCHANGED <<bs, hist>>

NextMovement == MoveEngage \/ MoveDisengage \/ GoDown \/ ReactionCandidates

SpecMovement == InitMovement /\ [][NextMovement]_vars

(***************************************************************************)
(* Attack exploration: one ally against two enemies (one of them with HP    *)
(* above the largest damage); the current actor submits an ATTACK step on   *)
(* one target, on a group or on everybody, followed by a step that changes  *)
(* nothing and is gated on the attack's result.  last keeps the whole       *)
(* skill; hist is not used.                                                 *)
(***************************************************************************)
Areas == {"SINGLE", "GROUP", "ALL"}

Volley(actor, t, area, req) ==
    Skill("volley", actor, "MAIN", 0,
          <<[AttackStep(t) EXCEPT !.area = area], HpDeltaStep(actor, 0, req)>>)

AttackInputs(b) ==
    {Volley(current_actor_id(b), t, area, req) :
        t \in DOMAIN b.combatants, area \in Areas, req \in 1..3}

InitAttack ==
    /\ bs = create_battle(<<"A1">>, <<"E1", "E2">>).bs
    /\ last = [op |-> "create_battle", skill |-> None, err |-> "", ran |-> <<>>]
    /\ hist = EmptyDict

AttackEndTurn ==
    /\ bs.tick < MaxAttackTick
    /\ bs' = end_turn(bs)
    /\ last' = [op |-> "end_turn", skill |-> None, err |-> "", ran |-> <<>>]
    /\ UNCHANGED hist

AttackSkill ==
    \E skill \in AttackInputs(bs) :
        \E r \in apply_skill(bs, skill, DefaultReactionHitPenalty) :
            /\ bs' = r.bs
            /\ last' = [op |-> "apply_skill", skill |-> Some(skill), err |-> r.err,
                        ran |-> r.ran]
            /\ UNCHANGED hist

NextAttack == AttackEndTurn \/ AttackSkill

SpecAttack == InitAttack /\ [][NextAttack]_vars

(***************************************************************************)
(* Area exploration: two allies against one enemy; the current actor        *)
(* engages (which mixes the teams in a group and lets reaction attacks put  *)
(* a combatant down) and submits a modifier step on every target under      *)
(* every area, and without a target under area ALL and every range: the     *)
(* targets of the step are the combatants whose modifier list grew.  last   *)
(* keeps the whole skill; hist is not used.                                 *)
(***************************************************************************)
Mark(actor, t, range, area) ==
    Skill("mark", actor, "MAIN", 0,
          <<[HexStep(t, 1) EXCEPT !.range = range, !.area = area]>>)

AreaInputs(b) ==
    LET actor == current_actor_id(b)
    IN  {Skill("dash", actor, "SUB", 0, <<Step("MOVE_ENGAGE", t, "ANY", "SINGLE")>>) :
            t \in DOMAIN b.combatants \ {actor}}
        \cup {Mark(actor, t, "ANY", ar) : t \in DOMAIN b.combatants, ar \in Areas}
        \cup {Mark(actor, NoTarget, r, "ALL") : r \in Ranges}

InitArea ==
    /\ bs = create_battle(<<"A1", "A2">>, <<"E1">>).bs
    /\ last = [op |-> "create_battle", skill |-> None, err |-> "", ran |-> <<>>]
    /\ hist = EmptyDict

AreaEndTurn ==
    /\ bs.tick < MaxAreaTick
    /\ bs' = end_turn(bs)
    /\ last' = [op |-> "end_turn", skill |-> None, err |-> "", ran |-> <<>>]
    /\ UNCHANGED hist

AreaSkill ==
    \E skill \in AreaInputs(bs) :
        \E r \in apply_skill(bs, skill, DefaultReactionHitPenalty) :
            /\ bs' = r.bs
            /\ last' = [op |-> "apply_skill", skill |-> Some(skill), err |-> r.err,
                        ran |-> r.ran]
            /\ UNCHANGED hist

NextArea == AreaEndTurn \/ AreaSkill

SpecArea == InitArea /\ [][NextArea]_vars

(***************************************************************************)
(* Dispel exploration: the current actor lays SLOW (resisted with AGI) or  *)
(* INSTANT_DEATH (not resistible) on the battle and removes it again with  *)
(* REMOVE_EFFECT steps that carry different status_inflict values.         *)
(***************************************************************************)
MaxDispelTick == 1

DispelEffects == {"SLOW", "INSTANT_DEATH"}

\* the status_inflict values a REMOVE_EFFECT step is given
StepInflicts == {None, Some(30)}

\* APPLY_EFFECT of eff for one turn with status_inflict 30
InflictStep(t, eff, area) ==
    [Step("APPLY_EFFECT", t, "ANY", area) EXCEPT
        !.effect_id = eff, !.effect_duration = Some(1), !.status_inflict = Some(30)]

RemoveStep(t, eff, area, inflict) ==
    [Step("REMOVE_EFFECT", t, "ANY", area) EXCEPT
        !.effect_id = eff, !.status_inflict = inflict]

DispelInputs(b) ==
    LET actor == current_actor_id(b)
    IN  {Skill("curse", actor, "MAIN", 0, <<InflictStep(t, eff, "SINGLE")>>) :
            t \in DOMAIN b.combatants, eff \in DispelEffects}
        \cup {Skill("cleanse", actor, "SUB", 0, <<RemoveStep(t, "SLOW", "SINGLE", i)>>) :
                 t \in DOMAIN b.combatants, i \in StepInflicts}
        \cup {Skill("cleanse", actor, "SUB", 0,
                     <<RemoveStep(NoTarget, eff, "ALL", Some(30))>>) : eff \in DispelEffects}

InitDispel ==
    /\ bs = create_battle(<<"A1">>, <<"E1">>).bs
    /\ last = [op |-> "create_battle", skill |-> None, err |-> "", ran |-> <<>>,
               events |-> <<>>]
    /\ hist = EmptyDict

DispelEndTurn ==
    /\ bs.tick < MaxDispelTick
    /\ bs' = end_turn(bs)
    /\ last' = [op |-> "end_turn", skill |-> None, err |-> "", ran |-> <<>>,
                events |-> <<>>]
    /\ UNCHANGED hist

DispelSkill ==
    \E skill \in DispelInputs(bs) :
        \E r \in apply_skill(bs, skill, DefaultReactionHitPenalty) :
            /\ bs' = r.bs
            /\ last' = [op |-> "apply_skill", skill |-> Some(skill), err |-> r.err,
                        ran |-> r.ran, events |-> r.events]
            /\ UNCHANGED hist

NextDispel == DispelEndTurn \/ DispelSkill

SpecDispel == InitDispel /\ [][NextDispel]_vars

(***************************************************************************)
(* Timebase exploration: turns_to_ticks called on every pair (turns,       *)
(* participant_count) of the bounds, and ticks_to_turns on its result.     *)
(* bs holds the two arguments.                                             *)
(***************************************************************************)
MaxTurns == 8

MaxParticipants == 5

InitTimebase ==
    /\ \E t \in -1..MaxTurns, n \in 0..MaxParticipants :
          bs = [turns |-> t, participant_count |-> n]
    /\ last = [op |-> "none", err |-> FALSE, ticks |-> 0, turns |-> 0]
    /\ hist = EmptyDict

TurnsToTicks ==
    /\ last.op = "none"
    /\ LET r == turns_to_ticks(bs.turns, bs.participant_count)
       IN  last' = [op |-> "turns_to_ticks", err |-> r.err, ticks |-> r.ticks, turns |-> 0]
    /\ UNCHANGED <<bs, hist>>

TicksToTurns ==
    /\ last.op = "turns_to_ticks" /\ ~last.err
    /\ LET r == ticks_to_turns(last.ticks, bs.participant_count)
       IN  last' = [op |-> "ticks_to_turns", err |-> r.err, ticks |-> last.ticks,
                    turns |-> r.turns]
    /\ UNCHANGED <<bs, hist>>

NextTimebase == TurnsToTicks \/ TicksToTurns

SpecTimebase == InitTimebase /\ [][NextTimebase]_vars

(***************************************************************************)
(* Down-state exploration: the current actor writes HP with APPLY_HP_DELTA *)
(* steps of every delta of HpDeltas, on either slot and on any combatant,  *)
(* so that combatants go down and are raised again.                        *)
(***************************************************************************)
MaxDownTick == 4

DownInputs(b) ==
    {Skill("mend", current_actor_id(b), ty, 0, <<HpDeltaStep(t, d, 0)>>) :
        ty \in {"MAIN", "SUB"}, t \in DOMAIN b.combatants, d \in HpDeltas}

\* hist lists, for every end_turn call made since creation, the combatant
\* that became the current actor
InitDown ==
    /\ bs = create_battle(<<"A1">>, <<"E1">>).bs
    /\ last = [op |-> "create_battle", skill |-> None, err |-> "", ran |-> <<>>]
    /\ hist = <<>>

DownEndTurn ==
    /\ bs.tick < MaxDownTick
    /\ bs' = end_turn(bs)
    /\ last' = [op |-> "end_turn", skill |-> None, err |-> "", ran |-> <<>>]
    /\ hist' = Append(hist, current_actor_id(bs'))

DownSkill ==
    \E skill \in DownInputs(bs) :
        \E r \in apply_skill(bs, skill, DefaultReactionHitPenalty) :
            /\ bs' = r.bs
            /\ last' = [op |-> "apply_skill", skill |-> Some(skill), err |-> r.err,
                        ran |-> r.ran]
            /\ UNCHANGED hist

NextDown == DownEndTurn \/ DownSkill

SpecDown == InitDown /\ [][NextDown]_vars

(***************************************************************************)
(* Chain exploration: the current actor submits two-step skills against    *)
(* the other combatant.  The first step writes HP, an effect, a modifier   *)
(* or the formation; the second is gated out, limited in range, or         *)
(* malformed (a missing field, an unknown kind, an engage onto oneself).   *)
(* Every skill is declared with a cooldown of one turn; the skills that    *)
(* halt take the MAIN slot, the malformed ones the SUB slot.               *)
(***************************************************************************)
MaxChainTick == 1

\* first steps; INSTANT_DEATH is not resistible, so the effect always lands
FirstSteps(t) ==
    {HpDeltaStep(t, -1, 0), HexStep(t, 1), InflictStep(t, "INSTANT_DEATH", "SINGLE"),
     Step("MOVE_ENGAGE", t, "ANY", "SINGLE")}

\* second steps that are skipped or return 0: gated on a result of 2, or
\* limited to a range
HaltingSteps(t) ==
    {HpDeltaStep(t, -1, 2)}
    \cup {[HpDeltaStep(t, -1, 0) EXCEPT !.range = r] : r \in {"MELEE", "RANGED"}}

\* second steps that raise: APPLY_EFFECT without effect_duration, an unknown
\* kind, MOVE_ENGAGE onto the actor itself
RaisingSteps(actor, t) ==
    {[BleedStep(t, 0, 0) EXCEPT !.effect_duration = None],
     Step("DANCE", t, "ANY", "SINGLE"),
     Step("MOVE_ENGAGE", actor, "ANY", "SINGLE")}

ChainInputs(b) ==
    LET actor == current_actor_id(b)
        others == DOMAIN b.combatants \ {actor}
        first == UNION {FirstSteps(t) : t \in others}
    IN  {Skill("combo", actor, "MAIN", 1, <<f, g>>) :
            f \in first, g \in UNION {HaltingSteps(t) : t \in others}}
        \cup {Skill("combo", actor, "SUB", 1, <<f, g>>) :
                 f \in first, g \in UNION {RaisingSteps(actor, t) : t \in others}}

InitChain ==
    /\ bs = create_battle(<<"A1">>, <<"E1">>).bs
    /\ last = [op |-> "create_battle", skill |-> None, err |-> "", ran |-> <<>>]
    /\ hist = EmptyDict

ChainEndTurn ==
    /\ bs.tick < MaxChainTick
    /\ bs' = end_turn(bs)
    /\ last' = [op |-> "end_turn", skill |-> None, err |-> "", ran |-> <<>>]
    /\ UNCHANGED hist

ChainSkill ==
    \E skill \in ChainInputs(bs) :
        \E r \in apply_skill(bs, skill, DefaultReactionHitPenalty) :
            /\ bs' = r.bs
            /\ last' = [op |-> "apply_skill", skill |-> Some(skill), err |-> r.err,
                        ran |-> r.ran]
            /\ UNCHANGED hist

NextChain == ChainEndTurn \/ ChainSkill

SpecChain == InitChain /\ [][NextChain]_vars

(***************************************************************************)
(* Reaction exploration: the current actor moves with MOVE_ENGAGE (onto    *)
(* any other combatant, one of its own group included) and MOVE_DISENGAGE  *)
(* steps, reaction-immune or not.  last.events lists the reaction attacks  *)
(* of the call.                                                            *)
(***************************************************************************)
MaxReactionTick == 2

ReactionInputs(b) ==
    LET actor == current_actor_id(b)
    IN  {Skill("dash", actor, "SUB", 0,
               <<[Step("MOVE_ENGAGE", t, "ANY", "SINGLE") EXCEPT !.reaction_immune = im]>>) :
            t \in DOMAIN b.combatants \ {actor}, im \in BOOLEAN}
        \cup {Skill("retreat", actor, "MAIN", 0,
                    <<[Step("MOVE_DISENGAGE", actor, "ANY", "SINGLE") EXCEPT
                          !.reaction_immune = im]>>) : im \in BOOLEAN}

InitReaction ==
    /\ bs = create_battle(<<"A1">>, <<"E1", "E2">>).bs
    /\ last = [op |-> "create_battle", skill |-> None, err |-> "", ran |-> <<>>,
               events |-> <<>>]
    /\ hist = EmptyDict

ReactionEndTurn ==
    /\ bs.tick < MaxReactionTick
    /\ bs' = end_turn(bs)
    /\ last' = [op |-> "end_turn", skill |-> None, err |-> "", ran |-> <<>>,
                events |-> <<>>]
    /\ UNCHANGED hist

ReactionSkill ==
    \E skill \in ReactionInputs(bs) :
        \E r \in apply_skill(bs, skill, DefaultReactionHitPenalty) :
            /\ bs' = r.bs
            /\ last' = [op |-> "apply_skill", skill |-> Some(skill), err |-> r.err,
                        ran |-> r.ran, events |-> r.events]
            /\ UNCHANGED hist

NextReaction == ReactionEndTurn \/ ReactionSkill

SpecReaction == InitReaction /\ [][NextReaction]_vars

(***************************************************************************)
(* Stored-entry exploration: the current actor stores a HIT modifier on    *)
(* itself and an effect on another, strikes with an ATTACK step, or moves  *)
(* so that reaction attacks are made; every attack is thus resolved in states      *)
(* whose combatants hold modifier instances and effects.                   *)
(***************************************************************************)
MaxStoredTick == 1

StoredInputs(b) ==
    LET actor == current_actor_id(b)
    IN  {Skill("hex", actor, "SUB", 0,
               <<HexStep(actor, 1), InflictStep(t, "SLOW", "SINGLE")>>) :
            t \in DOMAIN b.combatants \ {actor}}
        \cup {Skill("strike", actor, "MAIN", 0, <<AttackStep(t)>>) :
                 t \in DOMAIN b.combatants \ {actor}}
        \cup {Skill("dash", actor, "SUB", 0, <<Step("MOVE_ENGAGE", t, "ANY", "SINGLE")>>) :
                 t \in DOMAIN b.combatants \ {actor}}
        \cup {Skill("retreat", actor, "MAIN", 0,
                    <<Step("MOVE_DISENGAGE", actor, "ANY", "SINGLE")>>)}

InitStored ==
    /\ bs = create_battle(<<"A1">>, <<"E1">>).bs
    /\ last = [op |-> "create_battle", skill |-> None, err |-> "", ran |-> <<>>,
               events |-> <<>>]
    /\ hist = EmptyDict

StoredEndTurn ==
    /\ bs.tick < MaxStoredTick
    /\ bs' = end_turn(bs)
    /\ last' = [op |-> "end_turn", skill |-> None, err |-> "", ran |-> <<>>,
                events |-> <<>>]
    /\ UNCHANGED hist

StoredSkill ==
    \E skill \in StoredInputs(bs) :
        \E r \in apply_skill(bs, skill, DefaultReactionHitPenalty) :
            /\ bs' = r.bs
            /\ last' = [op |-> "apply_skill", skill |-> Some(skill), err |-> r.err,
                        ran |-> r.ran, events |-> r.events]
            /\ UNCHANGED hist

NextStored == StoredEndTurn \/ StoredSkill

SpecStored == InitStored /\ [][NextStored]_vars

(***************************************************************************)
(* Turn-order exploration: compute_turn_order applied to every set of       *)
(* definitions over the three ids with small AGI, WIS and level, and        *)
(* applied again to the same definitions.  bs holds the definitions only,   *)
(* last the sequence returned and the one returned by the call before.      *)
(***************************************************************************)
OrderStats == [agi : 0..MaxStat, wis : 0..MaxStat, level : 1..(MaxStat + 1)]

OrderDefs ==
    UNION { { [c \in S |-> CharacterDef(c, f[c].level,
                               Stats(10, f[c].agi, 10, 10, f[c].wis, 10), 1, "MELEE")]
              : f \in [S -> OrderStats] }
            : S \in (SUBSET {"A1", "A2", "E1"}) \ {{}} }

InitOrder ==
    /\ \E d \in OrderDefs : bs = [defs |-> d]
    /\ last = [op |-> "none", order |-> <<>>, prev |-> <<>>]
    /\ hist = [calls |-> 0]

ComputeTurnOrder ==
    /\ hist.calls < MaxOrderCalls
    /\ last' = [op |-> "compute_turn_order", order |-> compute_turn_order(bs.defs),
                prev |-> last.order]
    /\ hist' = [calls |-> hist.calls + 1]
    /\ UNCHANGED bs

NextOrder == ComputeTurnOrder

SpecOrder == InitOrder /\ [][NextOrder]_vars

(***************************************************************************)
(* Weighted-draw exploration: each check is called once on indices drawn    *)
(* from -1..MaxWeight.  bs holds the check and its indices, last the roll   *)
(* drawn by random.randint(1, total) and the outcome, or err when the       *)
(* check raised.                                                            *)
(***************************************************************************)
Weights == -1..MaxWeight

\* the total handed to random.randint(1, total)
WeightTotal(w) == IF Len(w) = 2 THEN w[1] + w[2] ELSE w[1] + w[2] + w[3]

InitChecks ==
    /\ \/ \E h, e \in Weights : bs = [check |-> "hit_check", w |-> <<h, e>>]
       \/ \E k, t, c \in Weights : bs = [check |-> "crit_check", w |-> <<k, t, c>>]
       \/ \E i, r \in Weights : bs = [check |-> "roll_status_success", w |-> <<i, r>>]
    /\ last = [op |-> "none", err |-> FALSE, roll |-> 0, outcome |-> "NONE"]
    /\ hist = EmptyDict

\* one call: raises on the indices alone, or draws a roll and classifies it
CheckCall(outcome(_)) ==
    /\ IF outcome(1) = "ERR"
       THEN last' = [op |-> bs.check, err |-> TRUE, roll |-> 0, outcome |-> "ERR"]
       ELSE \E roll \in 1..WeightTotal(bs.w) :
               last' = [op |-> bs.check, err |-> FALSE, roll |-> roll,
                        outcome |-> outcome(roll)]
    /\ UNCHANGED <<bs, hist>>

HitCheck ==
    /\ last.op = "none" /\ bs.check = "hit_check"
    /\ CheckCall(LAMBDA roll : hit_check(bs.w[1], bs.w[2], roll))

CritCheck ==
    /\ last.op = "none" /\ bs.check = "crit_check"
    /\ CheckCall(LAMBDA roll : crit_check(bs.w[1], bs.w[2], bs.w[3], roll))

StatusCheck ==
    /\ last.op = "none" /\ bs.check = "roll_status_success"
    /\ CheckCall(LAMBDA roll : roll_status_success(bs.w[1], bs.w[2], roll))

NextChecks == HitCheck \/ CritCheck \/ StatusCheck

SpecChecks == InitChecks /\ [][NextChecks]_vars

(***************************************************************************)
(* Creation exploration: create_battle called once on every pair of lists   *)
(* of at most MaxSide ids, repeated ids included.  hist holds the two       *)
(* argument lists, bs the state returned (None before the call and when     *)
(* the call raised).                                                        *)
(***************************************************************************)
SideLists == UNION {[1..n -> AllCids] : n \in 0..MaxSide}

InitCreate ==
    /\ bs = None
    /\ last = [op |-> "none", err |-> FALSE]
    /\ \E allies \in SideLists, enemies \in SideLists :
          hist = [allies |-> allies, enemies |-> enemies]

CreateBattle ==
    /\ last.op = "none"
    /\ LET r == create_battle(hist.allies, hist.enemies)
       IN  /\ bs' = IF r.err THEN None ELSE r.bs
           /\ last' = [op |-> "create_battle", err |-> r.err]
    /\ UNCHANGED hist

NextCreate == CreateBattle

SpecCreate == InitCreate /\ [][NextCreate]_vars

(***************************************************************************)
(* Properties.  A step of the state machine that calls apply_skill leaves  *)
(* last.op = "apply_skill" and last.skill = <<the skill submitted>>; the   *)
(* unprimed bs is the BattleState the call was made on.                    *)
(***************************************************************************)
\* the declared slot of the submitted skill is still available on b
SlotFree(b, sk) ==
    IF sk.action_type = "MAIN" THEN b.combatants[sk.actor].can_main
    ELSE b.combatants[sk.actor].can_sub

\* HP, effects and modifiers of every combatant, and the formation
Board(b) ==
    [hp |-> [c \in DOMAIN b.combatants |-> b.combatants[c].hp],
     effects |-> [c \in DOMAIN b.combatants |-> b.combatants[c].effects],
     modifiers |-> [c \in DOMAIN b.combatants |-> b.combatants[c].modifiers],
     group_id |-> [c \in DOMAIN b.combatants |-> b.combatants[c].group_id],
     groups |-> b.groups]

\* C1: in every state reachable from create_battle by apply_skill (attacks,
\* HP deltas of any sign and magnitude, movement with reaction attacks) and
\* end_turn, every combatant has 0 <= hp <= max_hp.
C1_HpWithinBounds ==
    \A c \in DOMAIN bs.combatants :
        /\ bs.combatants[c].hp >= 0
        /\ bs.combatants[c].hp <= bs.combatants[c].max_hp

\* after an end_turn, a retreat (with the reaction attack on it) leaves the
\* mover of max_hp 2 at 0 HP while the other combatant is at its max_hp
C1_Witness ==
    /\ last.op = "apply_skill"
    /\ last.skill[1].skill_id = "retreat"
    /\ last.err = ""
    /\ bs.tick >= 1
    /\ bs.combatants[last.skill[1].actor].max_hp = 2
    /\ bs.combatants[last.skill[1].actor].hp = 0
    /\ \E c \in DOMAIN bs.combatants :
          c # last.skill[1].actor /\ bs.combatants[c].hp = bs.combatants[c].max_hp

\* C2: apply_skill with skill.actor different from turn_order[turn_index]
\* fails with the turn error and leaves the whole BattleState unchanged.
C2_OnlyCurrentActorActs ==
    [][(last'.op = "apply_skill" /\ last'.skill[1].actor # current_actor_id(bs))
          => (last'.err = "NOT_YOUR_TURN" /\ last'.ran = <<>> /\ bs' = bs)]_vars

\* an out-of-turn submission was refused in a battle of two, after the first
\* actor had already used a slot in its own turn
C2_Witness ==
    /\ last.op = "apply_skill"
    /\ last.err = "NOT_YOUR_TURN"
    /\ last.skill[1].actor # current_actor_id(bs)
    /\ ~bs.combatants[current_actor_id(bs)].can_main

\* C3: MAIN and SUB are independent once-per-turn slots: between two end_turn
\* calls at most one MAIN skill and at most one SUB skill complete; a skill
\* declaring a used slot fails with the slot error and changes nothing; the
\* slot error is raised only for the declared slot, and a skill never touches
\* the other slot.
C3_SlotsOncePerTurn ==
    [][(last'.op = "apply_skill" /\ last'.skill[1].actor = current_actor_id(bs))
          => /\ hist'.main_done <= 1
             /\ hist'.sub_done <= 1
             /\ ~SlotFree(bs, last'.skill[1])
                   => (last'.err = "SLOT_USED" /\ last'.ran = <<>> /\ bs' = bs)
             /\ SlotFree(bs, last'.skill[1]) => last'.err # "SLOT_USED"
             /\ last'.skill[1].action_type = "MAIN"
                   => bs'.combatants[last'.skill[1].actor].can_sub
                         = bs.combatants[last'.skill[1].actor].can_sub
             /\ last'.skill[1].action_type = "SUB"
                   => bs'.combatants[last'.skill[1].actor].can_main
                         = bs.combatants[last'.skill[1].actor].can_main]_vars

\* one MAIN and one SUB skill completed in the same turn, and a further skill
\* was refused for its used slot
C3_Witness ==
    /\ last.op = "apply_skill"
    /\ last.err = "SLOT_USED"
    /\ hist.main_done = 1
    /\ hist.sub_done = 1

\* C4: end_turn increases tick by exactly 1, sets turn_index to
\* (turn_index + 1) mod len(turn_order) and leaves the new current actor with
\* both slots available, also in a battle of one participant.
C4_EndTurnAdvances ==
    [][last'.op = "end_turn"
          => /\ bs'.tick = bs.tick + 1
             /\ bs'.turn_order = bs.turn_order
             /\ bs'.turn_index = (bs.turn_index + 1) % Len(bs.turn_order)
             /\ bs'.combatants[current_actor_id(bs')].can_main
             /\ bs'.combatants[current_actor_id(bs')].can_sub]_vars

\* the second end_turn of a battle of one participant: the turn went back to
\* the only combatant
C4_Witness ==
    /\ last.op = "end_turn"
    /\ Len(bs.turn_order) = 1
    /\ bs.tick = 2
    /\ bs.turn_index = 0

\* C5: a current actor with HP 0 is skipped: a skill submitted for it executes
\* no step, consumes no slot and does not advance turn_index.
C5_DownActorSkipped ==
    [][(/\ last'.op = "apply_skill"
        /\ last'.skill[1].actor = current_actor_id(bs)
        /\ is_down(bs.combatants[current_actor_id(bs)]))
          => /\ last'.ran = <<>>
             /\ bs'.combatants[current_actor_id(bs)].can_main
                   = bs.combatants[current_actor_id(bs)].can_main
             /\ bs'.combatants[current_actor_id(bs)].can_sub
                   = bs.combatants[current_actor_id(bs)].can_sub
             /\ bs'.turn_index = bs.turn_index]_vars

\* C6: the steps run in list order; a step after the first is entered if and
\* only if the step before it was entered, returned, and returned a result
\* >= the step's require_prev_gte; a rejected call enters no step; the strike
\* chain whose attack is evaded applies no effect and changes no HP.
C6_ChainGating ==
    [][last'.op = "apply_skill"
          => /\ Len(last'.ran) <= Len(last'.skill[1].steps)
             /\ last'.err \in {"NOT_YOUR_TURN", "SLOT_USED", "ON_COOLDOWN"}
                   => last'.ran = <<>>
             /\ last'.err \in {"", "STEP_RAISED"}
                   => \A i \in 2..Len(last'.skill[1].steps) :
                         (i <= Len(last'.ran))
                            <=> /\ i - 1 <= Len(last'.ran)
                                /\ ~last'.ran[i - 1].raised
                                /\ last'.ran[i - 1].result
                                      >= last'.skill[1].steps[i].require_prev_gte
             /\ (/\ last'.skill[1].skill_id = "strike"
                 /\ Len(last'.ran) >= 1
                 /\ ~last'.ran[1].raised
                 /\ last'.ran[1].result = outcome_rank["EVADE"])
                   => (Len(last'.ran) = 1 /\ last'.err = "" /\ Board(bs') = Board(bs))]_vars

\* the evaded strike: the attack ran with result 0 and the effect step of
\* require_prev_gte = 1 was gated out
C6_Witness ==
    /\ last.op = "apply_skill"
    /\ last.skill[1].skill_id = "strike"
    /\ last.err = ""
    /\ Len(last.skill[1].steps) = 2
    /\ last.skill[1].steps[2].require_prev_gte = 1
    /\ Len(last.ran) = 1
    /\ last.ran[1].result = 0

\* C7: for every skill accepted for execution (right actor, free slot, no
\* active cooldown) with at least one step, the first step is executed
\* whatever its require_prev_gte is.
C7_FirstStepAlwaysRuns ==
    [][(/\ last'.op = "apply_skill"
        /\ last'.err \notin {"NOT_YOUR_TURN", "SLOT_USED", "ON_COOLDOWN"}
        /\ Len(last'.skill[1].steps) >= 1)
          => Len(last'.ran) >= 1]_vars

\* C8: for every skill whose skill_id has a cooldown entry > 0 on the actor,
\* whatever cooldown_turns the skill object declares, apply_skill fails and
\* no step of it mutates HP, effects, modifiers or the formation.
C8_CooldownBeforeSteps ==
    [][(/\ last'.op = "apply_skill"
        /\ last'.skill[1].actor = current_actor_id(bs)
        /\ DictGet(bs.combatants[current_actor_id(bs)].cooldowns,
                   last'.skill[1].skill_id, 0) > 0)
          => /\ last'.err # ""
             /\ last'.ran = <<>>
             /\ Board(bs') = Board(bs)]_vars

\* C9: when apply_skill returns normally for a skill of cooldown_turns = c > 0
\* in a battle of n participants the actor's cooldown entry of skill_id is
\* c*n + 1, whether all steps ran or the chain broke; with c = 0 the actor's
\* cooldown map is left as it was.
C9_CooldownRegistered ==
    [][(last'.op = "apply_skill" /\ last'.err = "")
          => IF last'.skill[1].cooldown_turns > 0
             THEN /\ last'.skill[1].skill_id
                        \in DOMAIN bs'.combatants[last'.skill[1].actor].cooldowns
                  /\ bs'.combatants[last'.skill[1].actor].cooldowns[last'.skill[1].skill_id]
                        = last'.skill[1].cooldown_turns * Len(bs.turn_order) + 1
             ELSE bs'.combatants[last'.skill[1].actor].cooldowns
                     = bs.combatants[last'.skill[1].actor].cooldowns]_vars

\* a strike of cooldown 1 in a battle of two whose chain broke after the
\* attack: 3 ticks are registered
C9_Witness ==
    /\ last.op = "apply_skill"
    /\ last.err = ""
    /\ last.skill[1].cooldown_turns = 1
    /\ Len(bs.turn_order) = 2
    /\ Len(last.ran) = 1
    /\ DictGet(bs.combatants[last.skill[1].actor].cooldowns, "strike", 0) = 3

\* C10: a skill used with cooldown_turns = c is refused for the rest of the
\* turn of its use and on each of the actor's next c own turns, and accepted
\* on every own turn from the (c+1)-th on.  last.since counts the own turns
\* begun since the use, last.reg_turns is the c of the use; with the declared
\* slot used the refusal is the slot error.
C10_CooldownBlocksOwnTurns ==
    [][(/\ last'.op = "apply_skill"
        /\ last'.skill[1].actor = current_actor_id(bs)
        /\ last'.skill[1].cooldown_turns > 0
        /\ last'.since >= 0)
          => IF ~SlotFree(bs, last'.skill[1]) THEN last'.err = "SLOT_USED"
             ELSE IF last'.since <= last'.reg_turns THEN last'.err = "ON_COOLDOWN"
             ELSE last'.err = ""]_vars

\* in a battle of two, the skill of cooldown 1 accepted on the second own turn
\* after its use (the submission at the first own turn, two ticks before,
\* could only be refused)
C10_Witness ==
    /\ last.op = "apply_skill"
    /\ last.err = ""
    /\ last.skill[1].cooldown_turns > 0
    /\ last.reg_turns = 1
    /\ last.since = 2
    /\ Len(bs.turn_order) = 2

\* a map of remaining ticks after k decays: initial - k where that is > 0
DecayMap(m, k) == [x \in {y \in DOMAIN m : m[y] - k > 0} |-> m[x] - k]

\* a modifier list after k decays
DecayList(ms, k) ==
    SelectSeq([i \in 1..Len(ms) |-> [ms[i] EXCEPT !.ticks_left = @ - k]],
              LAMBDA m : m.ticks_left > 0)

\* C11: after k end_turn calls with no apply_skill call in between, every
\* cooldown, effect and modifier instance of every combatant that started
\* with `initial` ticks has initial - k left if that is > 0 and is absent
\* otherwise.
C11_TickDecayLaw ==
    \A c \in DOMAIN bs.combatants :
        /\ bs.combatants[c].cooldowns = DecayMap(hist.base[c].cooldowns, hist.k)
        /\ bs.combatants[c].effects = DecayMap(hist.base[c].effects, hist.k)
        /\ bs.combatants[c].modifiers = DecayList(hist.base[c].modifiers, hist.k)

\* two end_turn calls after the last application, in a battle of two: an
\* effect that started above 2 is still held, decayed by 2, and so is a
\* modifier, while a cooldown that started at 2 or less is gone
C11_Witness ==
    /\ last.op = "end_turn"
    /\ hist.k = 2
    /\ Len(bs.turn_order) = 2
    /\ \E c \in DOMAIN bs.combatants : \E x \in DOMAIN hist.base[c].effects :
          /\ hist.base[c].effects[x] > 2
          /\ bs.combatants[c].effects[x] = hist.base[c].effects[x] - 2
    /\ \E c \in DOMAIN bs.combatants : \E x \in DOMAIN hist.base[c].cooldowns :
          x \notin DOMAIN bs.combatants[c].cooldowns
    /\ \E c \in DOMAIN bs.combatants :
          /\ bs.combatants[c].modifiers # <<>>
          /\ bs.combatants[c].modifiers[1].ticks_left
                = hist.base[c].modifiers[1].ticks_left - 2

C13_EffectReapplyAdds ==
    [][(/\ SingleStepDone(last', "APPLY_EFFECT", 1)
        /\ last'.skill[1].steps[1].effect_id
              \in DOMAIN bs.combatants[last'.skill[1].steps[1].target].effects)
          => /\ DOMAIN bs'.combatants[last'.skill[1].steps[1].target].effects
                   = DOMAIN bs.combatants[last'.skill[1].steps[1].target].effects
             /\ bs'.combatants[last'.skill[1].steps[1].target].effects[
                       last'.skill[1].steps[1].effect_id]
                   = bs.combatants[last'.skill[1].steps[1].target].effects[
                         last'.skill[1].steps[1].effect_id]
                     + last'.skill[1].steps[1].effect_duration[1] * Len(bs.turn_order)
                     + 1]_vars

\* the effect was re-applied on a target still holding it: more ticks are
\* left than one application stores
C13_Witness ==
    /\ SingleStepDone(last, "APPLY_EFFECT", 1)
    /\ last.skill[1].steps[1].effect_id
          \in DOMAIN bs.combatants[last.skill[1].steps[1].target].effects
    /\ bs.combatants[last.skill[1].steps[1].target].effects[
              last.skill[1].steps[1].effect_id]
          > last.skill[1].steps[1].effect_duration[1] * Len(bs.turn_order) + 1

\* C14: an APPLY_MODIFIER that reaches its target appends exactly one new
\* instance of d*n + 1 ticks (with the step's key and delta and an id no
\* other instance carries) and leaves every instance already listed as it
\* was, also one of the same key and delta; no apply_skill call removes or
\* changes an instance, and end_turn only decays them.
C14_ModifierAppends ==
    [][/\ last'.op = "apply_skill"
          => \A c \in DOMAIN bs.combatants :
                /\ Len(bs'.combatants[c].modifiers) >= Len(bs.combatants[c].modifiers)
                /\ SubSeq(bs'.combatants[c].modifiers, 1, Len(bs.combatants[c].modifiers))
                      = bs.combatants[c].modifiers
       /\ last'.op = "end_turn"
          => \A c \in DOMAIN bs.combatants :
                bs'.combatants[c].modifiers = DecayList(bs.combatants[c].modifiers, 1)
       /\ SingleStepDone(last', "APPLY_MODIFIER", 1)
          => /\ \A c \in DOMAIN bs.combatants :
                   Len(bs'.combatants[c].modifiers)
                      = Len(bs.combatants[c].modifiers)
                        + (IF c = last'.skill[1].steps[1].target THEN 1 ELSE 0)
             /\ LET s == last'.skill[1].steps[1]
                    ms == bs'.combatants[s.target].modifiers
                IN  /\ ms[Len(ms)].key = s.modifier_key
                    /\ ms[Len(ms)].delta = s.modifier_delta[1]
                    /\ ms[Len(ms)].ticks_left
                          = s.modifier_duration[1] * Len(bs.turn_order) + 1
                    /\ \A c \in DOMAIN bs.combatants :
                          \A i \in 1..Len(bs.combatants[c].modifiers) :
                             bs.combatants[c].modifiers[i].mid # ms[Len(ms)].mid]_vars

\* a modifier was applied on a target that already carried an instance of
\* the same key and delta: both are listed, the older one with fewer ticks
C14_Witness ==
    /\ SingleStepDone(last, "APPLY_MODIFIER", 1)
    /\ LET s == last.skill[1].steps[1]
           ms == bs.combatants[s.target].modifiers
       IN  /\ Len(ms) >= 2
           /\ ms[Len(ms) - 1].key = ms[Len(ms)].key
           /\ ms[Len(ms) - 1].delta = ms[Len(ms)].delta
           /\ ms[Len(ms) - 1].ticks_left < ms[Len(ms)].ticks_left

\* C17: the computed turn order is a permutation of the ids of the
\* definitions; of two ids the one with the higher AGI comes first, on equal
\* AGI the one with the higher WIS, then the one with the higher level, then
\* the one with the smaller id; computing it again from the same definitions
\* returns the same sequence.
C17_TurnOrderSorted ==
    last.op = "compute_turn_order" =>
        /\ Len(last.order) = Cardinality(DOMAIN bs.defs)
        /\ Range(last.order) = DOMAIN bs.defs
        /\ \A i, j \in 1..Len(last.order) :
              i < j =>
                 LET x == bs.defs[last.order[i]]
                     y == bs.defs[last.order[j]]
                 IN  IF x.stats.agi # y.stats.agi THEN x.stats.agi > y.stats.agi
                     ELSE IF x.stats.wis # y.stats.wis THEN x.stats.wis > y.stats.wis
                     ELSE IF x.level # y.level THEN x.level > y.level
                     ELSE CidRank[x.cid] < CidRank[y.cid]
        /\ hist.calls >= 2 => last.prev = last.order

\* three ids ordered twice: the first two tie on AGI and differ in WIS, the
\* last two tie on AGI and WIS and differ in level, against the id order
C17_Witness ==
    /\ last.op = "compute_turn_order"
    /\ hist.calls = 2
    /\ last.order = <<"E1", "A2", "A1">>
    /\ bs.defs["E1"].stats.agi = bs.defs["A2"].stats.agi
    /\ bs.defs["E1"].stats.wis > bs.defs["A2"].stats.wis
    /\ bs.defs["A2"].stats.agi = bs.defs["A1"].stats.agi
    /\ bs.defs["A2"].stats.wis = bs.defs["A1"].stats.wis
    /\ bs.defs["A2"].level > bs.defs["A1"].level

\* the number of times cid occurs in a member list
Occurrences(members, cid) == Cardinality({i \in 1..Len(members) : members[i] = cid})

\* C15: in every state reached by engage, disengage and the other steps,
\* every combatant id is listed in exactly one group, exactly once, and that
\* group's id is the combatant's group_id; the groups list nobody else.
C15_FormationPartition ==
    /\ \A c \in DOMAIN bs.combatants :
          /\ Cardinality({g \in DOMAIN bs.groups : c \in Range(bs.groups[g])}) = 1
          /\ bs.combatants[c].group_id \in DOMAIN bs.groups
          /\ Occurrences(bs.groups[bs.combatants[c].group_id], c) = 1
    /\ \A g \in DOMAIN bs.groups : Range(bs.groups[g]) \subseteq DOMAIN bs.combatants

\* after an engage and a disengage: one combatant alone in a group allocated
\* during the battle, and a group holding members of both teams
C15_Witness ==
    /\ \E c \in DOMAIN bs.combatants :
          /\ bs.combatants[c].group_id \notin {ally_group_id, enemy_group_id}
          /\ bs.groups[bs.combatants[c].group_id] = <<c>>
    /\ \E g \in DOMAIN bs.groups :
          \E i, j \in 1..Len(bs.groups[g]) :
             bs.combatants[bs.groups[g][i]].team # bs.combatants[bs.groups[g][j]].team

\* C16: no entry of the group map has an empty member list, in any reachable
\* state, the one returned by create_battle included.
C16_NoEmptyGroup == \A g \in DOMAIN bs.groups : bs.groups[g] # <<>>

\* C18: turn_index is always a valid index of turn_order, and no call changes
\* turn_order after creation.
C18_TurnOrderFixed ==
    /\ [](bs.turn_index \in 0..(Len(bs.turn_order) - 1))
    /\ [][bs'.turn_order = bs.turn_order]_vars

\* the turn has wrapped around in a battle of two whose formation has changed
\* and where a combatant is down
C18_Witness ==
    /\ last.op = "end_turn"
    /\ Len(bs.turn_order) = 2
    /\ bs.tick = 2
    /\ bs.turn_index = 0
    /\ \E c \in DOMAIN bs.combatants : is_down(bs.combatants[c])
    /\ \E c \in DOMAIN bs.combatants :
          bs.combatants[c].group_id \notin {ally_group_id, enemy_group_id}

\* C19: a MOVE_DISENGAGE step without a target, submitted by the current
\* actor on a free slot, completes without error with result 1 and leaves the
\* actor alone in a group id that did not exist before.
C19_DisengageWithoutTarget ==
    [][(/\ last'.op = "apply_skill"
        /\ last'.skill[1].steps[1].kind = "MOVE_DISENGAGE"
        /\ last'.skill[1].steps[1].target = NoTarget
        /\ last'.skill[1].actor = current_actor_id(bs)
        /\ SlotFree(bs, last'.skill[1]))
          => /\ last'.err = ""
             /\ last'.ran = <<[raised |-> FALSE, result |-> 1]>>
             /\ bs'.combatants[last'.skill[1].actor].group_id \notin DOMAIN bs.groups
             /\ bs'.groups[bs'.combatants[last'.skill[1].actor].group_id]
                   = <<last'.skill[1].actor>>]_vars

\* range legality of a step, read in the state the skill is submitted in
RangeLegal(b, actor, s) ==
    \/ s.range = "ANY"
    \/ s.range = "MELEE" /\ same_group(b, actor, s.target)
    \/ s.range = "RANGED" /\ ~same_group(b, actor, s.target)

\* C20: a range-limited step with an anchor is applied exactly when its range
\* is ANY, or MELEE with actor and anchor in one group, or RANGED with them
\* in different groups (an HP delta then yields 1 and changes the anchor's
\* HP); otherwise the call returns normally, HP, effects, modifiers and the
\* formation are as before, the result is 0 and the following step, gated on
\* a result of at least 1, is not run.
C20_RangeLegality ==
    [][(/\ last'.op = "apply_skill"
        /\ last'.skill[1].skill_id \in {"poke", "jab"}
        /\ last'.ran # <<>>)
          => IF RangeLegal(bs, last'.skill[1].actor, last'.skill[1].steps[1])
             THEN /\ ~last'.ran[1].raised
                  /\ last'.skill[1].skill_id = "poke"
                       => /\ last'.ran[1].result = 1
                          /\ bs'.combatants[last'.skill[1].steps[1].target].hp
                                = Max2(0, bs.combatants[last'.skill[1].steps[1].target].hp - 1)
                          /\ Len(last'.ran) = 2
             ELSE /\ last'.err = ""
                  /\ last'.ran = <<[raised |-> FALSE, result |-> 0]>>
                  /\ Board(bs') = Board(bs)]_vars

\* a RANGED step was submitted against a member of the actor's own group: it
\* yielded 0 and the gated step did not run
C20_Witness ==
    /\ last.op = "apply_skill"
    /\ last.err = ""
    /\ last.skill[1].skill_id \in {"poke", "jab"}
    /\ last.skill[1].steps[1].range = "RANGED"
    /\ same_group(bs, last.skill[1].actor, last.skill[1].steps[1].target)
    /\ last.ran = <<[raised |-> FALSE, result |-> 0]>>

\* the outcomes of a check, in bucket order
Buckets(check) ==
    IF check = "hit_check" THEN <<"HIT", "EVADE">>
    ELSE IF check = "crit_check" THEN <<"WEAK", "STRONG", "CRITICAL">>
    ELSE <<"SUCCESS", "FAIL">>

\* w[1] + ... + w[i]
RECURSIVE PrefixSum(_, _)
PrefixSum(w, i) == IF i = 0 THEN 0 ELSE PrefixSum(w, i - 1) + w[i]

\* C25: a check on nonnegative weights with a positive total draws a roll in
\* 1..total, and the roll lies in the bucket of exactly one outcome (bucket i
\* covers the rolls above w1 + .. + w(i-1) up to w1 + .. + wi), which is the
\* outcome returned and has a positive weight; a negative weight or a total
\* of 0 is rejected with an error.
C25_WeightedDrawPartition ==
    last.op # "none" =>
        IF (\E i \in 1..Len(bs.w) : bs.w[i] < 0) \/ PrefixSum(bs.w, Len(bs.w)) = 0
        THEN last.err
        ELSE /\ ~last.err
             /\ last.roll \in 1..PrefixSum(bs.w, Len(bs.w))
             /\ Cardinality({i \in 1..Len(bs.w) :
                                /\ PrefixSum(bs.w, i - 1) < last.roll
                                /\ last.roll <= PrefixSum(bs.w, i)}) = 1
             /\ \A i \in 1..Len(bs.w) :
                   last.outcome = Buckets(bs.check)[i]
                      <=> /\ PrefixSum(bs.w, i - 1) < last.roll
                          /\ last.roll <= PrefixSum(bs.w, i)
             /\ \A i \in 1..Len(bs.w) :
                   bs.w[i] = 0 => last.outcome # Buckets(bs.check)[i]

\* a crit check whose first weight is 0 drew the last roll of the second
\* bucket and returned STRONG
C25_Witness ==
    /\ last.op = "crit_check"
    /\ ~last.err
    /\ bs.w[1] = 0 /\ bs.w[2] > 0 /\ bs.w[3] > 0
    /\ last.roll = bs.w[2]
    /\ last.outcome = "STRONG"

\* some id occurs more than once in allies \o enemies
HasDuplicate(all) == \E i, j \in 1..Len(all) : i # j /\ all[i] = all[j]

\* C30: create_battle raises exactly when an id occurs more than once across
\* the two lists; otherwise the allies are the ally group and the enemies the
\* enemy group, every combatant is at its max HP, tick and turn_index are 0
\* and the first actor has both slots.
C30_CreateBattle ==
    last.op = "create_battle" =>
        /\ last.err <=> HasDuplicate(hist.allies \o hist.enemies)
        /\ ~last.err =>
              /\ \A i \in 1..Len(hist.allies) :
                    /\ bs.combatants[hist.allies[i]].group_id = ally_group_id
                    /\ bs.combatants[hist.allies[i]].team = "ALLY"
              /\ \A i \in 1..Len(hist.enemies) :
                    /\ bs.combatants[hist.enemies[i]].group_id = enemy_group_id
                    /\ bs.combatants[hist.enemies[i]].team = "ENEMY"
              /\ bs.groups[ally_group_id] = hist.allies
              /\ bs.groups[enemy_group_id] = hist.enemies
              /\ \A c \in DOMAIN bs.combatants :
                    bs.combatants[c].hp = bs.combatants[c].max_hp
              /\ bs.tick = 0
              /\ bs.turn_index = 0
              /\ bs.combatants[current_actor_id(bs)].can_main
              /\ bs.combatants[current_actor_id(bs)].can_sub

\* a member list without one id, the order of the others kept
Without(members, cid) == SelectSeq(members, LAMBDA c : c # cid)

\* what leaving group `old` does to the group map, apart from the group
\* joined: the entry loses the actor, or is deleted if the actor was alone
LeftGroup(actor, old, joined) ==
    /\ IF bs.groups[old] = <<actor>> THEN old \notin DOMAIN bs'.groups
       ELSE old \in DOMAIN bs'.groups /\ bs'.groups[old] = Without(bs.groups[old], actor)
    /\ DOMAIN bs'.groups \subseteq DOMAIN bs.groups \cup {joined}
    /\ \A g \in DOMAIN bs.groups \ {old, joined} :
          g \in DOMAIN bs'.groups /\ bs'.groups[g] = bs.groups[g]
    /\ \A c \in DOMAIN bs.combatants \ {actor} :
          bs'.combatants[c].group_id = bs.combatants[c].group_id

\* C27: disengage(actor) returns the largest existing group id + 1, an id
\* not in the group map; afterwards that group is <<actor>> and is the
\* actor's group_id, the actor is gone from its old group (whose entry is
\* deleted if it became empty), and no other group or group_id has changed.
C27_DisengageNewGroup ==
    [][last'.op = "disengage"
          => /\ ~last'.err
             /\ last'.new_gid = SetMax(DOMAIN bs.groups) + 1
             /\ last'.new_gid \notin DOMAIN bs.groups
             /\ last'.new_gid \in DOMAIN bs'.groups
             /\ bs'.groups[last'.new_gid] = <<last'.actor>>
             /\ bs'.combatants[last'.actor].group_id = last'.new_gid
             /\ LeftGroup(last'.actor, bs.combatants[last'.actor].group_id,
                          last'.new_gid)]_vars

\* the sole member of a group that was not the largest id disengaged: its
\* old entry is gone and it is alone in the new group
C27_Witness ==
    /\ last.op = "disengage"
    /\ last.prev_members = <<last.actor>>
    /\ last.prev_gid \notin DOMAIN bs.groups
    /\ last.prev_gid + 1 < last.new_gid
    /\ bs.groups[last.new_gid] = <<last.actor>>

\* C28: engage(actor, target) leaves the group map and every group_id as
\* they were when actor and target share a group; otherwise the actor is
\* gone from its old group (whose entry is deleted if it became empty), is
\* the last member of the target's group, has the target's group id, and no
\* other membership has changed.
C28_EngageJoins ==
    [][last'.op = "engage"
          => IF same_group(bs, last'.actor, last'.target)
             THEN /\ bs'.groups = bs.groups
                  /\ \A c \in DOMAIN bs.combatants :
                        bs'.combatants[c].group_id = bs.combatants[c].group_id
             ELSE /\ ~last'.err
                  /\ bs'.groups[bs.combatants[last'.target].group_id]
                        = Append(bs.groups[bs.combatants[last'.target].group_id],
                                 last'.actor)
                  /\ bs'.combatants[last'.actor].group_id
                        = bs.combatants[last'.target].group_id
                  /\ LeftGroup(last'.actor, bs.combatants[last'.actor].group_id,
                               bs.combatants[last'.target].group_id)]_vars

\* the sole member of a group engaged a target in a group of two or more:
\* its old entry is gone and it is listed last in the target's group
C28_Witness ==
    /\ last.op = "engage"
    /\ ~last.err
    /\ last.prev_members = <<last.actor>>
    /\ last.prev_gid \notin DOMAIN bs.groups
    /\ Len(bs.groups[bs.combatants[last.target].group_id]) >= 3
    /\ bs.groups[bs.combatants[last.target].group_id][
           Len(bs.groups[bs.combatants[last.target].group_id])] = last.actor

\* C29: the reaction candidates of a mover are none when the move is
\* reaction-immune; otherwise they are the members of the group the mover
\* was in before moving, in that group's order, that are not the mover, are
\* on the other team, have HP > 0 and have basic-attack range MELEE.
C29_ReactionCandidates ==
    last.op = "reaction_attack_candidates" =>
        last.cands =
            IF last.immune THEN <<>>
            ELSE SelectSeq(last.prev_members,
                           LAMBDA c : /\ c # last.actor
                                      /\ bs.combatants[c].team
                                            # bs.combatants[last.actor].team
                                      /\ bs.combatants[c].hp > 0
                                      /\ Characters[c].basic_attack_range = "MELEE")

\* an ally left a group listing both enemies, the later id first, and a
\* team mate: both enemies are candidates in the group's order
C29_Witness ==
    /\ last.op = "reaction_attack_candidates"
    /\ last.actor = "A1"
    /\ "A2" \in Range(last.prev_members)
    /\ last.cands = <<"E2", "E1">>

\* the combatants an in-range step is applied to, by its area: the anchor;
\* the members of the anchor's group on the anchor's team; everybody
AreaTargets(b, s) ==
    IF s.area = "SINGLE" THEN {s.target}
    ELSE IF s.area = "GROUP"
    THEN {c \in DOMAIN b.combatants :
             /\ b.combatants[c].group_id = b.combatants[s.target].group_id
             /\ b.combatants[c].team = b.combatants[s.target].team}
    ELSE DOMAIN b.combatants

\* damage by outcome rank: EVADE = 0, WEAK = 1, STRONG = 2, CRITICAL = 3
RankDamage(rank) == IF rank = 0 THEN 0 ELSE IF rank = 1 THEN 1 ELSE IF rank = 2 THEN 3 ELSE 9

\* C23: the result of an ATTACK step is the largest outcome rank among its
\* targets (each target's HP loss is that of the rank it resolved at, nobody
\* else is touched), and the following step, gated on r, runs exactly when
\* that largest rank is at least r.
C23_AttackResultIsMaxRank ==
    [][(/\ last'.op = "apply_skill"
        /\ last'.skill[1].skill_id = "volley"
        /\ last'.ran # <<>>
        /\ ~last'.ran[1].raised)
          => /\ \E f \in [DOMAIN bs.combatants -> 0..3] :
                   /\ \A c \in DOMAIN bs.combatants :
                         /\ c \notin AreaTargets(bs, last'.skill[1].steps[1]) => f[c] = 0
                         /\ bs'.combatants[c].hp
                               = Max2(0, bs.combatants[c].hp - RankDamage(f[c]))
                   /\ last'.ran[1].result = SetMax({f[c] : c \in DOMAIN bs.combatants})
             /\ Len(last'.ran) = 2
                   <=> last'.ran[1].result >= last'.skill[1].steps[2].require_prev_gte]_vars

\* the first attack of the battle went to everybody: E2 lost 1 HP (WEAK),
\* another target resolved CRITICAL, and the step gated on 3 ran
C23_Witness ==
    /\ last.op = "apply_skill"
    /\ bs.tick = 0
    /\ last.skill[1].steps[1].area = "ALL"
    /\ last.skill[1].steps[2].require_prev_gte = 3
    /\ last.ran = <<[raised |-> FALSE, result |-> 3], [raised |-> FALSE, result |-> 1]>>
    /\ bs.combatants["E2"].hp = bs.combatants["E2"].max_hp - 1

\* C24: an attack on one defender resolving at EVADE leaves the defender's
\* HP as it was; at WEAK, STRONG, CRITICAL it leaves max(0, HP - 1), (HP - 3),
\* (HP - 9); the HP of the attacker and of everybody else, and effects,
\* modifiers and formation, are unchanged.
C24_BasicAttackDamage ==
    [][(/\ last'.op = "apply_skill"
        /\ last'.skill[1].skill_id = "volley"
        /\ last'.skill[1].steps[1].area = "SINGLE"
        /\ last'.ran # <<>>
        /\ ~last'.ran[1].raised)
          => Board(bs') =
                [Board(bs) EXCEPT
                    !.hp[last'.skill[1].steps[1].target] =
                        Max2(0, @ - RankDamage(last'.ran[1].result))]]_vars

\* a CRITICAL on E2 at full HP: 9 HP lost, not clamped
C24_Witness ==
    /\ last.op = "apply_skill"
    /\ bs.tick = 0
    /\ last.skill[1].steps[1].area = "SINGLE"
    /\ last.skill[1].steps[1].target = "E2"
    /\ last.ran[1] = [raised |-> FALSE, result |-> 3]
    /\ bs.combatants["E2"].hp = bs.combatants["E2"].max_hp - 9

\* the modifier lists after a modifier step that was applied to exactly the
\* combatants in T: those lists are one instance longer, the others as before
MarkedExactly(T) ==
    \A c \in DOMAIN bs.combatants :
        IF c \in T
        THEN /\ Len(bs'.combatants[c].modifiers) = Len(bs.combatants[c].modifiers) + 1
             /\ SubSeq(bs'.combatants[c].modifiers, 1, Len(bs.combatants[c].modifiers))
                   = bs.combatants[c].modifiers
        ELSE bs'.combatants[c].modifiers = bs.combatants[c].modifiers

\* C21: a step with area ALL and no target is applied to every combatant of
\* the battle under every range (MELEE, RANGED, ANY): it is never out of
\* range.
C21_AllAreaSkipsRange ==
    [][(/\ last'.op = "apply_skill"
        /\ last'.skill[1].skill_id = "mark"
        /\ last'.skill[1].steps[1].target = NoTarget
        /\ last'.skill[1].steps[1].area = "ALL"
        /\ SlotFree(bs, last'.skill[1]))
          => /\ last'.err = ""
             /\ last'.ran = <<[raised |-> FALSE, result |-> 1]>>
             /\ MarkedExactly(DOMAIN bs.combatants)]_vars

\* C22: an in-range step is applied to exactly the anchor under SINGLE, to
\* exactly the members of the anchor's group that are on the anchor's team
\* under GROUP, and to exactly all combatants under ALL, the actor and
\* combatants at 0 HP included.
C22_AreaExpansion ==
    [][(/\ last'.op = "apply_skill"
        /\ last'.skill[1].skill_id = "mark"
        /\ last'.skill[1].steps[1].range = "ANY"
        /\ SlotFree(bs, last'.skill[1]))
          => /\ last'.err = ""
             /\ last'.ran = <<[raised |-> FALSE, result |-> 1]>>
             /\ MarkedExactly(AreaTargets(bs, last'.skill[1].steps[1]))]_vars

\* a GROUP step anchored in a group that holds both teams: exactly one
\* combatant, the actor's team mate, carries an instance; its group also
\* lists an opponent, who carries none
C22_Witness ==
    /\ last.op = "apply_skill"
    /\ last.err = ""
    /\ last.skill[1].skill_id = "mark"
    /\ last.skill[1].steps[1].area = "GROUP"
    /\ last.skill[1].steps[1].target # last.skill[1].actor
    /\ bs.combatants[last.skill[1].steps[1].target].modifiers # <<>>
    /\ \E c \in DOMAIN bs.combatants :
          /\ same_group(bs, c, last.skill[1].steps[1].target)
          /\ bs.combatants[c].team # bs.combatants[last.skill[1].steps[1].target].team
          /\ bs.combatants[c].modifiers = <<>>

\* the DISPEL_CHECK entries of the last call that name combatant c
ChecksOf(c) == {i \in 1..Len(last'.events) : last'.events[i].tgt = c}

C34_TicksTurnsRoundTrip ==
    last.op = "ticks_to_turns" => (~last.err /\ last.turns = bs.turns)

\* C32: in every reachable state a combatant's is_down is true if and only
\* if its current HP equals 0 (also after the HP of a downed combatant was
\* raised above 0 again).
C32_IsDownIffZeroHp ==
    \A c \in DOMAIN bs.combatants :
        is_down(bs.combatants[c]) <=> bs.combatants[c].hp = 0

\* a step of +1 HP has just left its target at 1 HP: the target was at 0 HP
\* before the step and is no longer down
C32_Witness ==
    /\ last.op = "apply_skill"
    /\ last.err = ""
    /\ last.skill[1].steps[1].hp_delta = Some(1)
    /\ bs.combatants[last.skill[1].steps[1].target].hp = 1
    /\ ~is_down(bs.combatants[last.skill[1].steps[1].target])

\* the remaining ticks of every stored cooldown, effect and modifier instance
StoredTicks(b) ==
    UNION {{b.combatants[c].cooldowns[k] : k \in DOMAIN b.combatants[c].cooldowns}
           \cup {b.combatants[c].effects[k] : k \in DOMAIN b.combatants[c].effects}
           \cup {b.combatants[c].modifiers[i].ticks_left :
                    i \in 1..Len(b.combatants[c].modifiers)} :
           c \in DOMAIN b.combatants}

\* C39: in every state reachable through create_battle, apply_skill and
\* end_turn, every stored cooldown, effect and modifier instance has at
\* least 1 remaining tick.
C39_StoredTicksPositive == \A t \in StoredTicks(bs) : t >= 1

\* a cooldown, an effect and a modifier instance are stored together, the
\* effect and the modifier with exactly 1 tick left: the next end_turn
\* deletes both
C39_Witness ==
    /\ \E c \in DOMAIN bs.combatants : DOMAIN bs.combatants[c].cooldowns # {}
    /\ \E c \in DOMAIN bs.combatants :
          \E k \in DOMAIN bs.combatants[c].effects : bs.combatants[c].effects[k] = 1
    /\ \E c \in DOMAIN bs.combatants :
          \E i \in 1..Len(bs.combatants[c].modifiers) :
              bs.combatants[c].modifiers[i].ticks_left = 1

\* the combatants that became the current actor in the n end_turn calls
\* starting with call number k are the turn order, rotated
RoundFrom(k) ==
    LET n == Len(bs.turn_order)
    IN  \E r \in 0..(n - 1) :
           \A i \in 1..n : hist[k + i - 1] = bs.turn_order[((r + i - 1) % n) + 1]

\* C40: the tick always equals the number of end_turn calls made since
\* creation, apply_skill never changes tick or turn_index, and in any
\* len(turn_order) consecutive end_turn calls every combatant becomes the
\* current actor exactly once, in turn_order order, whether or not it is
\* down.
C40_RoundRobinClock ==
    /\ [](/\ bs.tick = Len(hist)
          /\ \A k \in 1..(Len(hist) - Len(bs.turn_order) + 1) : RoundFrom(k))
    /\ [][last'.op = "apply_skill" =>
             /\ bs'.tick = bs.tick
             /\ bs'.turn_index = bs.turn_index]_vars

\* more end_turn calls than combatants were made, and the turn has just
\* passed to a combatant at 0 HP
C40_Witness ==
    /\ last.op = "end_turn"
    /\ Len(hist) > Len(bs.turn_order)
    /\ is_down(bs.combatants[current_actor_id(bs)])

\* the cooldowns of every combatant
Cooldowns(b) == [c \in DOMAIN b.combatants |-> b.combatants[c].cooldowns]

\* C35: a skill rejected because its cooldown is still active has consumed
\* its declared action slot (the other slot is as before), while HP,
\* effects, modifiers, formation and the remaining cooldown ticks are
\* unchanged.
C35_CooldownRejectConsumesSlot ==
    [][(last'.op = "apply_skill" /\ last'.err = "ON_COOLDOWN")
          => LET sk == last'.skill[1]
                 before == bs.combatants[sk.actor]
                 after == bs'.combatants[sk.actor]
             IN  /\ IF sk.action_type = "MAIN"
                    THEN before.can_main /\ ~after.can_main /\ after.can_sub = before.can_sub
                    ELSE before.can_sub /\ ~after.can_sub /\ after.can_main = before.can_main
                 /\ Board(bs') = Board(bs)
                 /\ Cooldowns(bs') = Cooldowns(bs)
                 /\ DictGet(after.cooldowns, sk.skill_id, 0) > 0]_vars

\* a MAIN skill has just been rejected on cooldown: its submitter's MAIN
\* slot is used and the cooldown is still running
C35_Witness ==
    /\ last.op = "apply_skill"
    /\ last.err = "ON_COOLDOWN"
    /\ last.skill[1].action_type = "MAIN"
    /\ ~bs.combatants[last.skill[1].actor].can_main
    /\ DictGet(bs.combatants[last.skill[1].actor].cooldowns, last.skill[1].skill_id, 0) > 0

\* the mutation of step s, submitted by actor, on the board x (HP, effects,
\* modifiers, formation): y is x with exactly that mutation made.  A
\* MOVE_ENGAGE may also cost the mover HP (reaction attacks).
StepMutation(b, x, y, actor, s) ==
    LET t == s.target
        dur == Len(b.turn_order) + 1
    IN  CASE s.kind = "APPLY_HP_DELTA" ->
                y = [x EXCEPT !.hp[t] = Max2(0, Min2(b.combatants[t].max_hp, @ + s.hp_delta[1]))]
          [] s.kind = "APPLY_EFFECT" ->
                y = [x EXCEPT !.effects[t] =
                        DictSet(@, s.effect_id, DictGet(@, s.effect_id, 0) + dur)]
          [] s.kind = "APPLY_MODIFIER" ->
                /\ [y EXCEPT !.modifiers[t] = <<>>] = [x EXCEPT !.modifiers[t] = <<>>]
                /\ Len(y.modifiers[t]) = Len(x.modifiers[t]) + 1
                /\ SubSeq(y.modifiers[t], 1, Len(x.modifiers[t])) = x.modifiers[t]
                /\ y.modifiers[t][Len(y.modifiers[t])].key = s.modifier_key
                /\ y.modifiers[t][Len(y.modifiers[t])].delta = s.modifier_delta[1]
                /\ y.modifiers[t][Len(y.modifiers[t])].ticks_left = dur
          [] s.kind = "MOVE_ENGAGE" ->
                /\ y.group_id[actor] = x.group_id[t]
                /\ \E i \in 1..Len(y.groups[y.group_id[actor]]) :
                      y.groups[y.group_id[actor]][i] = actor
                /\ y.hp[actor] <= x.hp[actor]
                /\ y.hp[t] = x.hp[t]
                /\ y.effects = x.effects /\ y.modifiers = x.modifiers

\* the declared slot of the submitter was free and is used, the other slot
\* is as before
SlotConsumed(sk) ==
    LET before == bs.combatants[sk.actor]
        after == bs'.combatants[sk.actor]
    IN  IF sk.action_type = "MAIN"
        THEN before.can_main /\ ~after.can_main /\ after.can_sub = before.can_sub
        ELSE before.can_sub /\ ~after.can_sub /\ after.can_main = before.can_main

\* the second step of the skill is skipped by its gate, or is out of range
\* in the formation the first step left
Halts(sk) ==
    /\ sk.steps[2].kind = "APPLY_HP_DELTA"
    /\ \/ sk.steps[2].require_prev_gte = 2
       \/ ~RangeLegal(bs', sk.actor, sk.steps[2])

\* C31: when the second step of a skill is gated out by require_prev_gte or
\* is out of range, the call returns normally and the mutation made by the
\* first step (HP, effect, modifier, formation) and the slot consumption
\* are in the state after the call.
C31_NoRollback ==
    [][(/\ last'.op = "apply_skill"
        /\ last'.skill[1].skill_id = "combo"
        /\ last'.err = ""
        /\ Halts(last'.skill[1]))
          => LET sk == last'.skill[1]
             IN  /\ last'.ran[1] = [raised |-> FALSE, result |-> 1]
                 /\ IF sk.steps[2].require_prev_gte = 2
                    THEN Len(last'.ran) = 1
                    ELSE last'.ran = <<[raised |-> FALSE, result |-> 1],
                                       [raised |-> FALSE, result |-> 0]>>
                 /\ StepMutation(bs, Board(bs), Board(bs'), sk.actor, sk.steps[1])
                 /\ SlotConsumed(sk)]_vars

\* a skill whose second step was out of range has returned; its first step
\* had moved the actor into the target's group, where the actor now is
C31_Witness ==
    /\ last.op = "apply_skill"
    /\ last.err = ""
    /\ last.skill[1].skill_id = "combo"
    /\ last.skill[1].steps[1].kind = "MOVE_ENGAGE"
    /\ last.skill[1].steps[2].range = "RANGED"
    /\ last.ran = <<[raised |-> FALSE, result |-> 1], [raised |-> FALSE, result |-> 0]>>
    /\ same_group(bs, last.skill[1].actor, last.skill[1].steps[1].target)

\* C36: when the second step of a skill raises (a missing required field, an
\* unknown kind, an engage onto oneself), the call fails with the declared
\* slot consumed and the first step's mutation kept, and no cooldown is
\* registered: the cooldowns are as before the call.
C36_RaiseKeepsMutationsNoCooldown ==
    [][(/\ last'.op = "apply_skill"
        /\ last'.skill[1].skill_id = "combo"
        /\ last'.skill[1].steps[2] \in RaisingSteps(last'.skill[1].actor,
                                                    last'.skill[1].steps[2].target)
        /\ SlotFree(bs, last'.skill[1])
        /\ ~cooldown_blocked(bs, last'.skill[1].actor, last'.skill[1]))
          => LET sk == last'.skill[1]
             IN  /\ last'.err = "STEP_RAISED"
                 /\ last'.ran = <<[raised |-> FALSE, result |-> 1],
                                  [raised |-> TRUE, result |-> 0]>>
                 /\ StepMutation(bs, Board(bs), Board(bs'), sk.actor, sk.steps[1])
                 /\ SlotConsumed(sk)
                 /\ Cooldowns(bs') = Cooldowns(bs)
                 /\ DictGet(bs'.combatants[sk.actor].cooldowns, sk.skill_id, 0) = 0]_vars

\* a skill declared with a cooldown of one turn has failed on its second
\* step after its first step laid an effect on the target: the effect is
\* held and the submitter has no cooldown
C36_Witness ==
    /\ last.op = "apply_skill"
    /\ last.err = "STEP_RAISED"
    /\ last.skill[1].cooldown_turns = 1
    /\ last.skill[1].steps[1].kind = "APPLY_EFFECT"
    /\ last.skill[1].steps[2].kind = "DANCE"
    /\ "INSTANT_DEATH" \in DOMAIN bs.combatants[last.skill[1].steps[1].target].effects
    /\ bs.combatants[last.skill[1].actor].cooldowns = EmptyDict

\* the attackers of a list of reaction attacks, in order
Attackers(events) == [i \in 1..Len(events) |-> events[i].attacker]

RECURSIVE TotalDamage(_)
TotalDamage(events) ==
    IF events = <<>> THEN 0 ELSE Head(events).damage + TotalDamage(Tail(events))

\* the members of the mover's group in state b that owe it a reaction attack:
\* the others of the opposing team that are not down and attack in MELEE
Reactors(b, mover) ==
    LET ok(c) == /\ c # mover
                 /\ b.combatants[c].hp > 0
                 /\ b.combatants[c].team # b.combatants[mover].team
                 /\ b.defs[c].basic_attack_range = "MELEE"
    IN  SelectSeq(b.groups[b.combatants[mover].group_id], ok)

\* C33: during a movement step the reaction candidates are those of the
\* group the mover occupied before the move; every candidate attacks the
\* mover exactly once, in candidate order; only the mover's HP can change
\* (it falls by the damage of the attacks, not below 0); a reaction-immune
\* move has no candidates and changes no HP.
C33_ReactionsDuringMove ==
    [][(/\ last'.op = "apply_skill"
        /\ last'.skill[1].skill_id \in {"dash", "retreat"}
        /\ SlotFree(bs, last'.skill[1]))
          => LET mover == last'.skill[1].actor
                 s == last'.skill[1].steps[1]
             IN  /\ last'.err = ""
                 /\ last'.ran = <<[raised |-> FALSE, result |-> 1]>>
                 /\ Attackers(last'.events) =
                       IF s.reaction_immune THEN <<>> ELSE Reactors(bs, mover)
                 /\ \A i \in 1..Len(last'.events) :
                       last'.events[i].damage =
                           IF last'.events[i].outcome = "EVADE" THEN 0
                           ELSE DAMAGE_TABLE[last'.events[i].outcome]
                 /\ \A c \in DOMAIN bs.combatants \ {mover} :
                       bs'.combatants[c].hp = bs.combatants[c].hp
                 /\ bs'.combatants[mover].hp =
                       Max2(0, bs.combatants[mover].hp - TotalDamage(last'.events))]_vars

\* a MOVE_DISENGAGE has just drawn two reaction attacks, by E1 and then E2;
\* the first one alone brought the mover down
C33_Witness ==
    /\ last.op = "apply_skill"
    /\ last.err = ""
    /\ last.skill[1].skill_id = "retreat"
    /\ Attackers(last.events) = <<"E1", "E2">>
    /\ last.events[1].damage >= 3
    /\ bs.combatants[last.skill[1].actor].hp = 0

\* C37: a MOVE_ENGAGE step whose target already shares the actor's group
\* changes no group membership but still triggers reaction attacks: every
\* non-downed MELEE member of the opposing team in that group attacks the
\* actor once, unless the step is reaction-immune.
C37_EngageInsideGroupReacts ==
    [][(/\ last'.op = "apply_skill"
        /\ last'.skill[1].skill_id = "dash"
        /\ SlotFree(bs, last'.skill[1])
        /\ same_group(bs, last'.skill[1].actor, last'.skill[1].steps[1].target))
          => LET mover == last'.skill[1].actor
                 s == last'.skill[1].steps[1]
             IN  /\ last'.err = ""
                 /\ last'.ran = <<[raised |-> FALSE, result |-> 1]>>
                 /\ bs'.groups = bs.groups
                 /\ \A c \in DOMAIN bs.combatants :
                       bs'.combatants[c].group_id = bs.combatants[c].group_id
                 /\ Attackers(last'.events) =
                       IF s.reaction_immune THEN <<>> ELSE Reactors(bs, mover)]_vars

\* a MOVE_ENGAGE has just returned with the actor listed before its target
\* in their group (a join would have appended the actor): no membership
\* changed, and the target attacked the actor in reaction
C37_Witness ==
    /\ last.op = "apply_skill"
    /\ last.err = ""
    /\ last.skill[1].skill_id = "dash"
    /\ LET mover == last.skill[1].actor
           t == last.skill[1].steps[1].target
           g == bs.groups[bs.combatants[mover].group_id]
       IN  /\ same_group(bs, mover, t)
           /\ \E i, j \in 1..Len(g) : i < j /\ g[i] = mover /\ g[j] = t
           /\ \E k \in 1..Len(last.events) : last.events[k].attacker = t

\* C38 helpers: Strip erases every stored effect and modifier instance; Obs is
\* what an attack lets one observe (raised or not, outcome, damage, the HP
\* left to every combatant)
RECURSIVE StripEach(_, _)
StripEach(b, cids) ==
    IF cids = <<>> THEN b
    ELSE StripEach([b EXCEPT !.combatants[Head(cids)].effects = EmptyDict,
                             !.combatants[Head(cids)].modifiers = <<>>],
                   Tail(cids))

Strip(b) == StripEach(b, b.cids)

Obs(r) ==
    [err |-> r.err, outcome |-> r.outcome, damage |-> r.damage,
     hp |-> [c \in DOMAIN r.bs.combatants |-> r.bs.combatants[c].hp]]

SkillObs(r) ==
    [err |-> r.err, events |-> r.events,
     hp |-> [c \in DOMAIN r.bs.combatants |-> r.bs.combatants[c].hp]]

\* the attacks the engine can make in b, as <<attacker, defender, modifiers>>:
\* the current actor's ATTACK step on another combatant with zero index
\* modifiers, another combatant's reaction attack on the current actor with
\* the hit penalty alone
EngineAttacks(b) ==
    LET actor == current_actor_id(b)
    IN  {<<actor, d, IndexModifiers(0)>> : d \in DOMAIN b.combatants \ {actor}}
        \cup {<<a, actor, IndexModifiers(-DefaultReactionHitPenalty)>> :
                 a \in DOMAIN b.combatants \ {actor}}

\* the pairs of rolls an attack is resolved with: every hit roll with the
\* lowest and the highest crit roll, every crit roll with the lowest hit roll
RollPairs(a, d, m) ==
    LET idx == compute_attack_indices(a, d, "STR", m)
        hitRolls == 1..Max2(1, idx.hit + idx.evade)
        critRolls == 1..Max2(1, idx.weak + idx.strong + idx.critical)
    IN  {<<hr, cr>> : hr \in hitRolls, cr \in {1, Max2(1, idx.weak + idx.strong + idx.critical)}}
        \cup {<<1, cr>> : cr \in critRolls}

\* C38: stored modifier instances and effects do not influence attack
\* resolution.  In every state reached, for every attack the engine can make
\* (an ATTACK step with zero index modifiers, a reaction attack with the hit
\* penalty alone), the attack given the same two rolls
\* (every pair of RollPairs) has the same outcome, damage and HP left as in
\* the state stripped of its stored effects and modifiers; the results
\* basic_attack can produce are exactly those of the stripped state over
\* these rolls; and a skill of one ATTACK or movement step can produce
\* exactly the same results (reaction attacks included) in the state and in
\* the stripped state.
C38_StoredEntriesIgnoredByAttacks ==
    /\ \A x \in EngineAttacks(bs) :
           LET sb == Strip(bs)
           IN  /\ \A p \in RollPairs(x[1], x[2], x[3]) :
                     Obs(basic_attack_rolled(bs, x[1], x[2], x[3], "STR", p[1], p[2]))
                         = Obs(basic_attack_rolled(sb, x[1], x[2], x[3], "STR", p[1], p[2]))
               /\ {Obs(r) : r \in basic_attack(bs, x[1], x[2], x[3], "STR")}
                     = {Obs(basic_attack_rolled(sb, x[1], x[2], x[3], "STR", p[1], p[2])) :
                           p \in RollPairs(x[1], x[2], x[3])}
    /\ \A sk \in StoredInputs(bs) :
         sk.skill_id \in {"strike", "dash", "retreat"}
           => {SkillObs(r) : r \in apply_skill(bs, sk, DefaultReactionHitPenalty)}
                = {SkillObs(r) :
                      r \in apply_skill(Strip(bs), sk, DefaultReactionHitPenalty)}

\* a strike that hit, made by an attacker holding a stored HIT modifier on a
\* defender holding a stored effect
C38_Witness ==
    /\ last.op = "apply_skill"
    /\ last.err = ""
    /\ last.skill[1].skill_id = "strike"
    /\ LET a == last.skill[1].actor
           d == last.skill[1].steps[1].target
       IN  /\ \E i \in 1..Len(bs.combatants[a].modifiers) :
                 bs.combatants[a].modifiers[i].key = "HIT"
           /\ DOMAIN bs.combatants[d].effects # {}
           /\ bs.combatants[d].hp < bs.combatants[d].max_hp
====
